---- MODULE Spec2Model ----
(***************************************************************************)
(* brAIn-loop: the adaptive command-execution governor (command registry,  *)
(* policy evolution, duplicate detection, dangerous-pattern validation)    *)
(* and the propose/refine/commit session manager with its processed_log    *)
(* idempotency ledger.                                                     *)
(*                                                                         *)
(* Conventions.  Real numbers are kept as integer hundredths (risk score   *)
(* 0.7 is 70, success rate 0.95 is 95/100).  Time is unix seconds.  A SQL  *)
(* statement whose Go caller has an `if err != nil` branch may fail: the   *)
(* outcome is an input of the action (updOk, lockOk).                      *)
(***************************************************************************)
EXTENDS Integers, Sequences, FiniteSets, TLC

NULL == "NULL"

(***************************************************************************)
(* Command texts issued by the client, and what each contains.             *)
(***************************************************************************)
Commands == {"ls -la", "rm -rf /", "chmod 644 f", "rm a; chmod 644 b", "sudo ls"}

\* strings.Contains(command, s) for the literals the validator, the risk
\* score and the executor look for.
SubstringsOf(command) ==
    CASE command = "ls -la"            -> {}
      [] command = "rm -rf /"          -> {"rm "}
      [] command = "chmod 644 f"       -> {"chmod"}
      [] command = "rm a; chmod 644 b" -> {"rm ", "chmod"}
      [] command = "sudo ls"           -> {"sudo"}
      [] OTHER                         -> {}

\* regexp.MatchString(pattern, command) for the injection and the dangerous
\* patterns; a pattern is named by its source text.
RegexMatchesOf(command) ==
    CASE command = "rm -rf /" -> {"(?i)rm\\s+-rf\\s+/"}
      [] OTHER                -> {}

Contains(command, s) == s \in SubstringsOf(command)

\* the twenty entries of DangerousPatterns that the commands above can hit
DangerousPatterns == {"(?i)rm\\s+-rf\\s+/", "(?i)chmod\\s+777", "(?i)sudo\\s+(su|-i)"}

\* MatchesDangerousPattern: first return value
MatchesDangerousPattern(command) ==
    \E p \in DangerousPatterns : p \in RegexMatchesOf(command)

\* ValidatePromotionSecurity: TRUE when it returns nil
ValidatePromotionSecurity(command) == ~MatchesDangerousPattern(command)

\* Validator.Validate: TRUE when it returns nil.  Length, NUL byte, injection
\* patterns, /dev/tcp, sudo / "su ", base64 and xxd pipelines; the dangerous
\* pattern set is not consulted.
Validate(command) ==
    /\ ~Contains(command, "\\x00")
    /\ ~Contains(command, "/dev/tcp")
    /\ ~Contains(command, "/dev/udp")
    /\ ~Contains(command, "sudo")
    /\ ~Contains(command, "su ")

\* Validator.CalculateRiskScore, in hundredths
CalculateRiskScore(command) ==
    LET destructive == IF \E s \in {"rm ", "dd ", "mkfs", "format", "fdisk"} : Contains(command, s)
                       THEN 30 ELSE 0
        modify      == IF \E s \in {"chmod", "chown", "chgrp"} : Contains(command, s)
                       THEN 20 ELSE 0
        redirect    == IF \E s \in {">>", ">", "<", "2>", "2>>"} : Contains(command, s)
                       THEN 5 ELSE 0
        score       == 30 + destructive + modify + redirect
    IN  IF score > 100 THEN 100 ELSE score

\* Executor.validateCommand: TRUE when it returns nil (the process is started)
validateCommand(command) ==
    ~ \E s \in {"sudo", "su ", "passwd", "chroot", "mount ", "umount ", "fdisk", "mkfs", "format"} :
          Contains(command, s)

\* calculateHash: SHA-256 of the text, injective on the texts used here
calculateHash(text) == <<"sha256", text>>

Hashes == { calculateHash(t) : t \in Commands }

\* hashCommand: strings.ReplaceAll(command, "\n", "\\n"), the text itself
\* with its line feeds escaped (no text of Commands has one).  A value that
\* goes into a log line is a pair of its kind and its text, the way a digest
\* is the pair calculateHash makes.
hashCommand(command) == <<"text", command>>

\* the message of the error Validate returns
ValidateError(command) ==
    CASE Contains(command, "\\x00")   -> "command contains null bytes"
      [] Contains(command, "/dev/tcp") -> "network redirection not allowed"
      [] Contains(command, "/dev/udp") -> "network redirection not allowed"
      [] Contains(command, "sudo")     -> "privilege escalation commands not allowed"
      [] Contains(command, "su ")      -> "privilege escalation commands not allowed"
      [] OTHER                         -> ""

\* a log.Printf call: the format and the values printed into it
LogLine(format, args) == [format |-> format, args |-> args]

\* LogSecurityEvent on the event ValidatePromotionSecurity builds: the JSON of
\* command_hash, event_type and details (the timestamp is left out)
SecurityEvent(command) ==
    LogLine("SECURITY_EVENT: %s",
            << hashCommand(command),
               <<"event_type", "DANGEROUS_PATTERN_BLOCKED">>,
               <<"details", CHOOSE p \in DangerousPatterns : p \in RegexMatchesOf(command)>> >>)

\* the lines a call of ValidatePromotionSecurity writes
ValidatePromotionSecurityLog(command) ==
    IF MatchesDangerousPattern(command) THEN {SecurityEvent(command)} ELSE {}

(***************************************************************************)
(* commands_registry (database S).  reg[h] is the row with primary key h,  *)
(* or NoRow.  A nullable integer column is <<>> (NULL) or <<value>>.       *)
(* last_100_timestamps is the text column as a sequence of tokens: a       *)
(* timestamp, or Semicolon.                                                *)
(***************************************************************************)
VARIABLES reg, now, last

(***************************************************************************)
(* securityLog: the "[SECURITY]" and SECURITY_EVENT lines that the latest  *)
(* call of the governor or of the registry wrote to the process log.       *)
(***************************************************************************)
VARIABLES securityLog

(***************************************************************************)
(* The lifecycle database (sessions, session_blocks, block_refinements,    *)
(* processed_log) and what commits and generations act on: targets[t] is   *)
(* the content of the file or database t and the number of times it was    *)
(* written or executed against.  lastLoop is what the last operation of    *)
(* the session manager or of a generate handler did.                       *)
(***************************************************************************)
VARIABLES sessions, session_blocks, block_refinements, processed_log, targets, lastLoop

(***************************************************************************)
(* Goroutines inside Registry.GetOrCreateCommand: callers[c] is where      *)
(* caller c stands between its SELECT and its INSERT.                      *)
(***************************************************************************)
VARIABLES callers

(***************************************************************************)
(* Worker processes of one working directory: lockFile is brainloop.lock   *)
(* (which process created the inode, and its content), inst[p] is where    *)
(* process p stands in checkSingleInstance and main.                       *)
(***************************************************************************)
VARIABLES lockFile, inst

(***************************************************************************)
(* One worker between start and exit: worker is main's position and the    *)
(* rest of its sleep, inflight the request the MCP server is handling,     *)
(* checkpointed and closedDBs the databases shutdown has treated,          *)
(* heartbeat the last status sent.                                         *)
(***************************************************************************)
VARIABLES worker, inflight, checkpointed, closedDBs, heartbeat

(***************************************************************************)
(* The Cerebras rate limiter: rl is the RateLimiter struct (tokens is the  *)
(* number of tokens in the channel), calls[c] is where goroutine c stands  *)
(* inside Wait or TryAcquire, retry is the goroutine inside                *)
(* RetryWithBackoff.  rlLast records the last backoff check and acquired   *)
(* counts the tokens taken since the last refill.                          *)
(***************************************************************************)
VARIABLES rl, calls, retry, rlLast, acquired

limVars == <<rl, calls, retry, rlLast, acquired>>

(***************************************************************************)
(* The wall clock in milliseconds (now is its Unix second), the clock      *)
(* reading at the last execution the governor launched, and the sum of the *)
(* durations UpdateExecution has recorded.                                 *)
(***************************************************************************)
VARIABLES clockMs, lastExecMs, totalDurationMs

clockVars == <<clockMs, lastExecMs, totalDurationMs>>

lockVars == <<lockFile, inst>>

shutVars == <<worker, inflight, checkpointed, closedDBs, heartbeat>>

procVars == <<callers, lockVars, shutVars, limVars, clockVars>>

bashVars == <<reg, last, securityLog>>

loopVars == <<sessions, session_blocks, block_refinements, processed_log, targets, lastLoop>>

vars == <<reg, now, last, securityLog, sessions, session_blocks, block_refinements, processed_log, targets,
          lastLoop, procVars>>

NoRow == [absent |-> TRUE]

Semicolon == -1

THIRTY_DAYS == 2592000

PromotionMinExecutions == 20

MaxTimestamps == 100

\* initTables: the column defaults, and GetOrCreateCommand's INSERT
NewRow(commandText) ==
    [ command_text            |-> commandText,
      execution_count         |-> 0,
      success_count           |-> 0,
      failure_count           |-> 0,
      avg_duration_ms         |-> 0,
      last_executed           |-> <<>>,
      current_policy          |-> "unknown",
      user_override           |-> NULL,
      promoted_at             |-> <<>>,
      duplicate_check_enabled |-> TRUE,
      duplicate_threshold_ms  |-> 1000,
      last_100_timestamps     |-> <<>> ]

Exists(r, h) == r[h] # NoRow

\* formatTimestamps: the decimal timestamps joined by ";"
formatTimestamps(timestamps) ==
    IF Len(timestamps) = 0 THEN <<>>
    ELSE [ i \in 1..(2 * Len(timestamps) - 1) |->
             IF i % 2 = 1 THEN timestamps[(i + 1) \div 2] ELSE Semicolon ]

\* parseTimestamps: split on ";", keep the parts that parse as integers
parseTimestamps(str) ==
    IF str = <<>> THEN <<>>
    ELSE SelectSeq(str, LAMBDA tok : tok # Semicolon)

\* GetOrCreateCommand: the registry after the call (the hash is calculateHash)
GetOrCreateCommand(r, commandText) ==
    LET h == calculateHash(commandText)
    IN  IF Exists(r, h) THEN r ELSE [r EXCEPT ![h] = NewRow(commandText)]

KeepLast_KeepsOldest(timestamps) ==
    IF Len(timestamps) > MaxTimestamps
    THEN SubSeq(timestamps, 1, MaxTimestamps)
    ELSE timestamps

\* the tail kept by UpdateExecution: timestamps[len(timestamps)-100:]
KeepLast(timestamps) ==
    IF Len(timestamps) > MaxTimestamps
    THEN SubSeq(timestamps, Len(timestamps) - MaxTimestamps + 1, Len(timestamps))
    ELSE timestamps

\* an UpdateExecution whose success branch has lost its else: a failure is
\* counted in both columns
UpdateExecution_CountsFailureTwice(r, h, exitCode, durationMs, t, ok) ==
    IF ~ok \/ ~Exists(r, h) THEN r
    ELSE
      LET row            == r[h]
          timestamps     == KeepLast(Append(parseTimestamps(row.last_100_timestamps), t))
          executionCount == row.execution_count + 1
          newAvg         == (row.avg_duration_ms * (executionCount - 1) + durationMs) \div executionCount
      IN  [r EXCEPT ![h] = [row EXCEPT
              !.execution_count     = executionCount,
              !.success_count       = row.success_count + 1,
              !.failure_count       = IF exitCode = 0 THEN row.failure_count
                                      ELSE row.failure_count + 1,
              !.avg_duration_ms     = newAvg,
              !.last_executed       = <<t>>,
              !.last_100_timestamps = formatTimestamps(timestamps)]]

\* UpdateExecution: the registry after the call; ok = FALSE is the error
\* return of one of its statements (the deferred Rollback leaves no change)
UpdateExecution(r, h, exitCode, durationMs, t, ok) ==
    IF ~ok \/ ~Exists(r, h) THEN r
    ELSE
      LET row            == r[h]
          timestamps     == KeepLast(Append(parseTimestamps(row.last_100_timestamps), t))
          successCount   == IF exitCode = 0 THEN row.success_count + 1 ELSE row.success_count
          failureCount   == IF exitCode = 0 THEN row.failure_count ELSE row.failure_count + 1
          executionCount == row.execution_count + 1
          newAvg         == (row.avg_duration_ms * (executionCount - 1) + durationMs) \div executionCount
      IN  [r EXCEPT ![h] = [row EXCEPT
              !.execution_count     = executionCount,
              !.success_count       = successCount,
              !.failure_count       = failureCount,
              !.avg_duration_ms     = newAvg,
              !.last_executed       = <<t>>,
              !.last_100_timestamps = formatTimestamps(timestamps)]]

\* GetPolicy: user_override when set and non-empty, else current_policy
GetPolicy(r, h) ==
    IF r[h].user_override # NULL /\ r[h].user_override # ""
    THEN r[h].user_override
    ELSE r[h].current_policy

\* PromotePolicy: the registry after the call.  lockOk = FALSE is the error
\* return of the row-locking SELECT; a dangerous command text is refused.
PromotePolicy(r, h, newPolicy, t, lockOk) ==
    IF ~lockOk \/ ~Exists(r, h) THEN r
    ELSE IF ~ValidatePromotionSecurity(r[h].command_text) THEN r
    ELSE [r EXCEPT ![h] = [r[h] EXCEPT !.current_policy = newPolicy,
                                       !.promoted_at    = <<t>>]]

\* the lines PromotePolicy writes: the security validation runs once the row
\* is locked
PromotePolicyLog(r, h, lockOk) ==
    IF ~lockOk \/ ~Exists(r, h) THEN {}
    ELSE ValidatePromotionSecurityLog(r[h].command_text)

\* SetPolicy: writes user_override or current_policy, nothing else
SetPolicy(r, h, policy, isOverride) ==
    IF ~Exists(r, h) THEN r
    ELSE IF isOverride
         THEN [r EXCEPT ![h] = [r[h] EXCEPT !.user_override = policy]]
         ELSE [r EXCEPT ![h] = [r[h] EXCEPT !.current_policy = policy]]

\* the columns initTables creates
RegistryColumns ==
    { "command_hash", "command_text", "execution_count", "success_count", "failure_count",
      "avg_duration_ms", "last_executed", "first_seen", "created_at", "updated_at",
      "current_policy", "user_override", "policy_reason", "policy_last_updated",
      "promoted_at", "duplicate_check_enabled", "duplicate_threshold_ms",
      "last_100_timestamps" }

\* command_hash = <unix time>: a 64-digit hexadecimal digest against a decimal
\* number of seconds
HashEqualsTime(h, t) == FALSE

\* UpdatePolicy: [reg, err].  The statement is
\*   UPDATE commands_registry SET <columns>, updated_at = ? WHERE command_hash = ?
\* and its arguments are bound in the order values, hash, now: a column the
\* table lacks is an error, and otherwise the rows updated are those whose
\* command_hash equals the unix time.
UpdatePolicy_Applies(r, h, updates, t) ==
    [ reg |-> [r EXCEPT ![h] = [r[h] EXCEPT
                 !.duplicate_check_enabled =
                     IF "duplicate_check" \in DOMAIN updates
                     THEN updates.duplicate_check ELSE @,
                 !.duplicate_threshold_ms =
                     IF "duplicate_threshold" \in DOMAIN updates
                     THEN updates.duplicate_threshold ELSE @]],
      err |-> FALSE ]

UpdatePolicy(r, h, updates, t) ==
    IF DOMAIN updates = {} THEN [reg |-> r, err |-> TRUE]
    ELSE IF ~(DOMAIN updates \subseteq RegistryColumns) THEN [reg |-> r, err |-> TRUE]
    ELSE [ reg |-> [ k \in DOMAIN r |->
                       IF Exists(r, k) /\ HashEqualsTime(k, t)
                       THEN [ c \in DOMAIN r[k] |->
                                IF c \in DOMAIN updates THEN updates[c] ELSE r[k][c] ]
                       ELSE r[k] ],
           err |-> FALSE ]

RECURSIVE TotalInterval(_, _)
\* the loop `for i := 1; i < len(timestamps); i++ { totalInterval += ts[i] - ts[i-1] }`
TotalInterval(timestamps, i) ==
    IF i > Len(timestamps) THEN 0
    ELSE (timestamps[i] - timestamps[i - 1]) + TotalInterval(timestamps, i + 1)

\* GetCommandStats: the fields the policy rules read
GetCommandStats(r, h) ==
    LET row == r[h]
        ts  == parseTimestamps(row.last_100_timestamps)
    IN  [ CommandText         |-> row.command_text,
          ExecutionCount      |-> row.execution_count,
          SuccessCount        |-> row.success_count,
          FailureCount        |-> row.failure_count,
          CurrentPolicy       |-> row.current_policy,
          UserOverride        |-> row.user_override,
          ExecutionTimestamps |-> ts,
          LastExecutionTime   |-> IF Len(ts) > 0 THEN <<ts[Len(ts)]>> ELSE <<>>,
          RiskScore           |-> CalculateRiskScore(row.command_text) ]

\* PolicyManager.DetectMonitoringPattern: at least 10 timestamps, mean interval < 5 s
DetectMonitoringPattern(timestamps) ==
    /\ Len(timestamps) >= 10
    /\ TotalInterval(timestamps, 2) < 5 * (Len(timestamps) - 1)

\* PolicyManager.DetectRareCommandPattern: at least 2 timestamps, mean interval > 3600 s
DetectRareCommandPattern(timestamps) ==
    /\ Len(timestamps) >= 2
    /\ TotalInterval(timestamps, 2) > 3600 * (Len(timestamps) - 1)

\* PolicyManager.ShouldPromoteToAutoApprove
ShouldPromoteToAutoApprove(stats, t) ==
    /\ stats.CurrentPolicy = "ask"
    /\ stats.ExecutionCount >= PromotionMinExecutions
    /\ stats.SuccessCount * 100 >= 95 * stats.ExecutionCount
    /\ stats.RiskScore < 50
    /\ stats.LastExecutionTime # <<>>
    /\ t - stats.LastExecutionTime[1] <= THIRTY_DAYS

\* PromotePolicy's error return: the lock query failed, no such row, or the
\* security validation refused the text
PromotePolicyErr(r, h, lockOk) ==
    ~lockOk \/ ~Exists(r, h) \/ ~ValidatePromotionSecurity(r[h].command_text)

\* a CheckAutoEvolution with a symmetric fourth rule: an auto_approve command
\* whose success rate fell under 95 % goes back to ask
PolicyManagerCheckAutoEvolution_Demotes(r, h, t, lockOk) ==
    IF ~Exists(r, h) THEN r
    ELSE
      LET stats == GetCommandStats(r, h)
      IN  IF stats.RiskScore >= 70 THEN r
          ELSE IF ShouldPromoteToAutoApprove(stats, t)
          THEN PromotePolicy(r, h, "auto_approve", t, lockOk)
          ELSE IF /\ stats.CurrentPolicy = "auto_approve"
                  /\ stats.SuccessCount * 100 < 95 * stats.ExecutionCount
          THEN SetPolicy(r, h, "ask", FALSE)
          ELSE r

\* PolicyManager.CheckAutoEvolution: the registry after the call
PolicyManagerCheckAutoEvolution(r, h, t, lockOk) ==
    IF ~Exists(r, h) THEN r
    ELSE
      LET stats     == GetCommandStats(r, h)
          promote   == ShouldPromoteToAutoApprove(stats, t)
          r1        == IF promote THEN PromotePolicy(r, h, "auto_approve", t, lockOk) ELSE r
          monitor   == DetectMonitoringPattern(stats.ExecutionTimestamps) /\ stats.ExecutionCount >= 50
          u2        == UpdatePolicy(r1, h, [duplicate_check |-> FALSE, policy_type |-> "monitoring"], t)
          r2        == IF monitor THEN u2.reg ELSE r1
          rare      == DetectRareCommandPattern(stats.ExecutionTimestamps)
          u3        == UpdatePolicy(r2, h, [duplicate_threshold |-> 30000], t)
      IN  IF stats.RiskScore >= 70 THEN r
          ELSE IF promote /\ PromotePolicyErr(r, h, lockOk) THEN r1
          ELSE IF monitor /\ u2.err THEN r2
          ELSE IF rare THEN u3.reg
          ELSE r2

\* the lines PolicyManager.CheckAutoEvolution writes: those of the promotion
\* it attempts
PolicyManagerCheckAutoEvolutionLog(r, h, t, lockOk) ==
    IF ~Exists(r, h) THEN {}
    ELSE
      LET stats == GetCommandStats(r, h)
      IN  IF stats.RiskScore < 70 /\ ShouldPromoteToAutoApprove(stats, t)
          THEN PromotePolicyLog(r, h, lockOk)
          ELSE {}

\* the lines Registry.CheckAutoEvolution writes
RegistryCheckAutoEvolutionLog(r, h, t, lockOk) ==
    IF ~Exists(r, h) THEN {}
    ELSE
      LET stats == GetCommandStats(r, h)
      IN  IF /\ stats.ExecutionCount >= PromotionMinExecutions
             /\ stats.SuccessCount * 100 >= 95 * stats.ExecutionCount
             /\ GetPolicy(r, h) # "auto_approve"
          THEN PromotePolicyLog(r, h, lockOk)
          ELSE {}

\* Registry.CheckAutoEvolution: the registry after the call
RegistryCheckAutoEvolution(r, h, t, lockOk) ==
    IF ~Exists(r, h) THEN r
    ELSE
      LET stats == GetCommandStats(r, h)
      IN  IF stats.ExecutionCount < PromotionMinExecutions THEN r
          ELSE IF stats.SuccessCount * 100 < 95 * stats.ExecutionCount THEN r
          ELSE IF GetPolicy(r, h) = "auto_approve" THEN r
          ELSE PromotePolicy(r, h, "auto_approve", t, lockOk)

\* GetDuplicationCheck: (lastTimestamp, thresholdMs, enabled)
GetDuplicationCheck(r, h) ==
    LET ts == parseTimestamps(r[h].last_100_timestamps)
    IN  [ lastTimestamp |-> IF Len(ts) > 0 THEN ts[Len(ts)] ELSE 0,
          thresholdMs   |-> r[h].duplicate_threshold_ms,
          enabled       |-> r[h].duplicate_check_enabled ]

(***************************************************************************)
(* The governor: BashHandler.HandleExecuteBash and executeCommand.         *)
(***************************************************************************)
ExecOutcomes == {"exit0", "exit1", "timeout"}

\* Executor.Execute: launched is "cmd.Run() was called"; a refused command
\* and a timeout both leave ExitCode 0 and set Error
Execute(command, outcome) ==
    IF ~validateCommand(command)
    THEN [launched |-> FALSE, ExitCode |-> 0, Error |-> TRUE,  WasTimeout |-> FALSE]
    ELSE IF outcome = "timeout"
    THEN [launched |-> TRUE,  ExitCode |-> 0, Error |-> TRUE,  WasTimeout |-> TRUE]
    ELSE IF outcome = "exit1"
    THEN [launched |-> TRUE,  ExitCode |-> 1, Error |-> FALSE, WasTimeout |-> FALSE]
    ELSE [launched |-> TRUE,  ExitCode |-> 0, Error |-> FALSE, WasTimeout |-> FALSE]

\* BashHandler.executeCommand: [reg, status, launched, log, steps]; steps
\* is the calls it made, in order, with update_execution named by its return
executeCommand(r, command, h, outcome, durationMs, t, updOk, lockOk) ==
    LET result == Execute(command, outcome)
        r1     == UpdateExecution(r, h, result.ExitCode, durationMs, t, updOk)
        update == IF updOk THEN "update_execution" ELSE "update_execution_error"
    IN  IF result.Error
        THEN [reg |-> r1, status |-> "execution_failed", launched |-> result.launched,
              log |-> {}, steps |-> <<"execute", update>>]
        ELSE [reg |-> PolicyManagerCheckAutoEvolution(r1, h, t, lockOk),
              status |-> "executed", launched |-> result.launched,
              log |-> PolicyManagerCheckAutoEvolutionLog(r1, h, t, lockOk),
              steps |-> <<"execute", update, "check_auto_evolution">>]

\* the same test with the ask branch taken for ask_warning only
RunsExecutor_AskFallsThrough(policy, forceExecute) ==
    \/ policy = "auto_approve"
    \/ forceExecute
    \/ ~(policy = "ask_warning")

\* step 9 and the fall-through after step 10: does the handler call executeCommand
RunsExecutor(policy, forceExecute) ==
    \/ policy = "auto_approve"
    \/ forceExecute
    \/ ~(policy = "ask" \/ policy = "ask_warning")

\* step 10: the duplicate test of the ask branch
IsDuplicate(r, h, t) ==
    LET d == GetDuplicationCheck(r, h)
    IN  /\ d.enabled
        /\ d.lastTimestamp > 0
        /\ (t - d.lastTimestamp) * 1000 < d.thresholdMs

\* what the last operation did: the row's columns as the handler read them,
\* the response, and whether the executor started a process
Observation(op, command, forceExecute, existed, row, policy, status, launched) ==
    [ op       |-> op,
      command  |-> command,
      force    |-> forceExecute,
      existed  |-> existed,
      current  |-> row.current_policy,
      override |-> row.user_override,
      policy   |-> policy,
      status   |-> status,
      launched |-> launched,
      steps    |-> <<>> ]

NoObservation ==
    Observation("none", "", FALSE, FALSE, NewRow(""), "", "", FALSE)

\* BashHandler.HandleExecuteBash
HandleExecuteBash(command, forceExecute, outcome, durationMs, updOk, lockOk) ==
    LET h       == calculateHash(command)
        existed == Exists(reg, h)
        r0      == GetOrCreateCommand(reg, command)
        policy  == GetPolicy(r0, h)
        ex      == executeCommand(r0, command, h, outcome, durationMs, now, updOk, lockOk)
        highRisk == IF CalculateRiskScore(command) >= 80
                    THEN {LogLine("[SECURITY] High risk command detected (score: %.2f): %s",
                                  << <<"text", command>> >>)}
                    ELSE {}
    IN  /\ now' = now
        /\ UNCHANGED loopVars
        /\ UNCHANGED <<callers, lockVars, shutVars, limVars, clockMs>>
        /\ lastExecMs' = IF Validate(command) /\ RunsExecutor(policy, forceExecute)
                            /\ ex.launched
                         THEN clockMs ELSE lastExecMs
        /\ totalDurationMs' = IF Validate(command) /\ RunsExecutor(policy, forceExecute)
                                 /\ updOk
                              THEN totalDurationMs + durationMs ELSE totalDurationMs
        /\ IF ~Validate(command)
           THEN /\ reg' = reg
                /\ securityLog' =
                       {LogLine("[SECURITY] Invalid command rejected: %s - Error: %v",
                                << <<"text", command>>,
                                   <<"error", ValidateError(command)>> >>)}
                /\ last' = Observation("execute_bash", command, forceExecute, existed,
                                        NewRow(command), "", "validation_failed", FALSE)
           ELSE IF RunsExecutor(policy, forceExecute)
           THEN /\ reg' = ex.reg
                /\ securityLog' = highRisk \cup ex.log
                /\ last' = [Observation("execute_bash", command, forceExecute, existed,
                                         r0[h], policy, ex.status, ex.launched)
                               EXCEPT !.steps = ex.steps]
           ELSE /\ reg' = r0
                /\ securityLog' =
                       highRisk \cup
                       (IF IsDuplicate(r0, h, now)
                        THEN {LogLine("[SECURITY] Duplicate command detected: %s (seconds since last: %d)",
                                      << <<"text", command>> >>)}
                        ELSE {})
                /\ last' = Observation("execute_bash", command, forceExecute, existed,
                                        r0[h], policy,
                                        IF IsDuplicate(r0, h, now) THEN "duplicate_warning"
                                                                   ELSE "pending_validation",
                                        FALSE)

\* Registry.SetPolicy called by the operator
OperatorSetPolicy(command, policy, isOverride) ==
    LET h == calculateHash(command)
    IN  /\ Exists(reg, h)
        /\ reg' = SetPolicy(reg, h, policy, isOverride)
        /\ securityLog' = {}
        /\ last' = Observation("set_policy", command, FALSE, TRUE, NewRow(command), "", "", FALSE)
        /\ now' = now
        /\ UNCHANGED loopVars
        /\ UNCHANGED procVars

\* Registry.CheckAutoEvolution called on a registered command
CallRegistryCheckAutoEvolution(command, lockOk) ==
    LET h == calculateHash(command)
    IN  /\ Exists(reg, h)
        /\ reg' = RegistryCheckAutoEvolution(reg, h, now, lockOk)
        /\ securityLog' = RegistryCheckAutoEvolutionLog(reg, h, now, lockOk)
        /\ last' = Observation("check_auto_evolution", command, FALSE, TRUE, NewRow(command), "", "", FALSE)
        /\ now' = now
        /\ UNCHANGED loopVars
        /\ UNCHANGED procVars

\* wall-clock time passes
Tick(d) ==
    /\ now' = now + d
    /\ clockMs' = clockMs + 1000 * d
    /\ UNCHANGED <<reg, last, securityLog>>
    /\ UNCHANGED loopVars
    /\ UNCHANGED <<callers, lockVars, shutVars, limVars, lastExecMs, totalDurationMs>>

(***************************************************************************)
(* The lifecycle database operations (LifecycleDB).                        *)
(***************************************************************************)
SessionIds == {"s1", "s2"}

BlockIds == {"b1", "b2"}

Targets == {"out.go", "app.db"}

\* what the code generator can answer
Codes == {"codeA", "codeB"}

\* the block inputs a propose request is made of
BlockInputs ==
    { [ID |-> "b1", Type |-> "go",   Target |-> "out.go"],
      [ID |-> "b2", Type |-> "sql",  Target |-> "app.db"],
      [ID |-> "b2", Type |-> "text", Target |-> "out.go"] }

NoSession == [absent |-> TRUE]

NoBlock == [absent |-> TRUE]

\* LifecycleDB.CreateSession
CreateSession(ss, sessionID, status, t) ==
    [ss EXCEPT ![sessionID] = [status |-> status, created_at |-> t, completed_at |-> <<>>]]

\* LifecycleDB.CreateBlock: the INSERT, status 'pending' and iterations 0 by default
CreateBlock(bs, blockID, sessionID, blockType, target, t) ==
    [bs EXCEPT ![blockID] =
        [ session_id      |-> sessionID,
          type            |-> blockType,
          target          |-> target,
          code            |-> NULL,
          iterations      |-> 0,
          status          |-> "pending",
          generated_at    |-> t,
          last_refined_at |-> <<>>,
          committed_at    |-> <<>> ]]

\* LifecycleDB.UpdateBlockCode
UpdateBlockCode(bs, blockID, code, t) ==
    IF bs[blockID] = NoBlock THEN bs
    ELSE [bs EXCEPT ![blockID].code = code,
                    ![blockID].iterations = @ + 1,
                    ![blockID].last_refined_at = <<t>>]

\* LifecycleDB.CommitBlock
CommitBlock(bs, blockID, t) ==
    IF bs[blockID] = NoBlock THEN bs
    ELSE [bs EXCEPT ![blockID].status = "committed",
                    ![blockID].committed_at = <<t>>]

\* LifecycleDB.AddRefinement
AddRefinement(rs, blockID, feedback, refinedCode, t) ==
    Append(rs, [block_id |-> blockID, feedback |-> feedback,
                refined_code |-> refinedCode, created_at |-> t])

\* LifecycleDB.IsProcessed
IsProcessed(log, hash) == \E e \in log : e.hash = hash

\* LifecycleDB.MarkProcessed: a plain INSERT, hash is the primary key
MarkProcessedErr(log, hash) == IsProcessed(log, hash)

MarkProcessed(log, hash, operation, resultJSON, t) ==
    IF MarkProcessedErr(log, hash) THEN log
    ELSE log \cup { [hash |-> hash, operation |-> operation,
                     timestamp |-> t, result_json |-> resultJSON] }

\* hashString of server.go and calculateHash of manager.go: SHA-256 of the
\* concatenation
hashString(str) == <<"sha256", str>>

calculateCommitHash(sessionID, blockID, code) == <<"sha256", sessionID \o blockID \o code>>

\* os.WriteFile on a file target, executeSQL on a database target
ApplyTo(tg, target, code) ==
    [tg EXCEPT ![target] = [content |-> code, mutations |-> @.mutations + 1]]

(***************************************************************************)
(* The session manager (Manager.Propose, Refine, Commit) and the generate  *)
(* handlers of the server.  An operation's failing step is an input:       *)
(* failAt names the call that returns an error, "none" when none does.     *)
(***************************************************************************)
\* what the last operation did: the hash it computed, whether that hash was
\* in processed_log when the call began, whether the call wrote the target,
\* and the error it returned ("" for a success)
LoopObservation(op, sessionID, blockID, target, hash, already, applied, err) ==
    [ op      |-> op,
      session |-> sessionID,
      block   |-> blockID,
      target  |-> target,
      hash    |-> hash,
      already |-> already,
      applied |-> applied,
      err     |-> err ]

NoLoopObservation ==
    LoopObservation("none", "", "", "", hashString(""), FALSE, FALSE, "")

\* one goroutine of Propose, for one block input: the block table after it
ProposeBlock(bs, sessionID, input, code, generateFails, t) ==
    IF bs[input.ID] # NoBlock THEN bs
    ELSE LET created == CreateBlock(bs, input.ID, sessionID, input.Type, input.Target, t)
         IN  IF generateFails THEN created
             ELSE UpdateBlockCode(created, input.ID, code, t)

ProposeBlockErr(bs, input, generateFails) ==
    bs[input.ID] # NoBlock \/ generateFails

\* Manager.Propose: the session row, then every block input (the inputs of a
\* request carry different ids, so the goroutines touch different rows)
Propose(sessionID, inputs, codeOf, failing) ==
    /\ sessions[sessionID] = NoSession
    /\ sessions' = CreateSession(sessions, sessionID, "pending_audit", now)
    /\ session_blocks' =
          [ b \in BlockIds |->
              IF \E i \in inputs : i.ID = b
              THEN LET i == CHOOSE x \in inputs : x.ID = b
                   IN  ProposeBlock(session_blocks, sessionID, i, codeOf[b], b \in failing, now)[b]
              ELSE session_blocks[b] ]
    /\ lastLoop' = LoopObservation("propose", sessionID, "", "", hashString(""), FALSE, FALSE,
                      IF \E i \in inputs : ProposeBlockErr(session_blocks, i, i.ID \in failing)
                      THEN "propose_failed" ELSE "")
    /\ UNCHANGED <<block_refinements, processed_log, targets, now>>
    /\ UNCHANGED bashVars
    /\ UNCHANGED procVars

\* Manager.Refine
RefineSteps == {"none", "generate", "add_refinement", "update_code", "get_block"}

Refine(sessionID, blockID, feedback, refinedCode, failAt) ==
    LET block == session_blocks[blockID]
        err   == IF block = NoBlock THEN "failed to retrieve block"
                 ELSE IF block.session_id # sessionID THEN "block does not belong to session"
                 ELSE IF failAt = "generate" THEN "failed to generate refined code"
                 ELSE IF failAt = "add_refinement" THEN "failed to record refinement"
                 ELSE IF failAt = "update_code" THEN "failed to update block code"
                 ELSE IF failAt = "get_block" THEN "failed to retrieve updated block"
                 ELSE ""
        recorded == err \in {"", "failed to update block code", "failed to retrieve updated block"}
        updated  == err \in {"", "failed to retrieve updated block"}
    IN  /\ block_refinements' =
              IF recorded THEN AddRefinement(block_refinements, blockID, feedback, refinedCode, now)
              ELSE block_refinements
        /\ session_blocks' =
              IF updated THEN UpdateBlockCode(session_blocks, blockID, refinedCode, now)
              ELSE session_blocks
        /\ lastLoop' = LoopObservation("refine", sessionID, blockID, "", hashString(""),
                                       FALSE, FALSE, err)
        /\ UNCHANGED <<sessions, processed_log, targets, now>>
        /\ UNCHANGED bashVars
        /\ UNCHANGED procVars

\* Manager.Commit
CommitSteps == {"none", "generate", "apply", "commit_block", "update_code", "get_block"}

SupportedTypes == {"sql", "go", "python", "code"}

\* the error Commit returns, "" for a success; the steps are tried in the
\* order of the code
CommitErr(sessionID, blockID, finalCode, failAt) ==
    LET block == session_blocks[blockID]
    IN  IF block = NoBlock THEN "failed to retrieve block"
        ELSE IF block.session_id # sessionID THEN "block does not belong to session"
        ELSE IF failAt = "generate" THEN "failed to generate final code"
        ELSE IF block.type \notin SupportedTypes THEN "unsupported block type"
        ELSE IF failAt = "apply" THEN "failed to apply"
        ELSE IF MarkProcessedErr(processed_log, calculateCommitHash(sessionID, blockID, finalCode))
             THEN "failed to mark processed"
        ELSE IF failAt = "commit_block" THEN "failed to commit block"
        ELSE IF failAt = "update_code" THEN "failed to update final code"
        ELSE IF failAt = "get_block" THEN "failed to retrieve committed block"
        ELSE ""

\* the steps of Commit that ran before the error named err
CommitApplied(err) ==
    err \in {"failed to mark processed", "failed to commit block", "failed to update final code",
             "failed to retrieve committed block", ""}

\* the final code was generated, so the call has a commit hash
CommitGenerated(err) ==
    err \notin {"failed to retrieve block", "block does not belong to session",
                "failed to generate final code"}

CommitMarked(err) ==
    err \in {"failed to commit block", "failed to update final code",
             "failed to retrieve committed block", ""}

CommitBlockDone(err) ==
    err \in {"failed to update final code", "failed to retrieve committed block", ""}

CommitCodeStored(err) ==
    err \in {"failed to retrieve committed block", ""}

Commit(sessionID, blockID, finalCode, failAt) ==
    LET block  == session_blocks[blockID]
        err    == CommitErr(sessionID, blockID, finalCode, failAt)
        hash   == calculateCommitHash(sessionID, blockID, finalCode)
        result == [block_id |-> blockID, output_path |-> block.target, type |-> block.type]
        bs1    == IF CommitBlockDone(err) THEN CommitBlock(session_blocks, blockID, now)
                  ELSE session_blocks
    IN  /\ targets' = IF CommitApplied(err) THEN ApplyTo(targets, block.target, finalCode)
                      ELSE targets
        /\ processed_log' = IF CommitMarked(err)
                            THEN MarkProcessed(processed_log, hash, "commit", result, now)
                            ELSE processed_log
        /\ session_blocks' = IF CommitCodeStored(err)
                             THEN UpdateBlockCode(bs1, blockID, finalCode, now)
                             ELSE bs1
        /\ lastLoop' = LoopObservation("commit", sessionID, blockID,
                                       IF block = NoBlock THEN "" ELSE block.target,
                                       IF CommitGenerated(err) THEN hash ELSE hashString(""),
                                       CommitGenerated(err) /\ IsProcessed(processed_log, hash),
                                       CommitApplied(err), err)
        /\ UNCHANGED <<sessions, block_refinements, now>>
        /\ UNCHANGED bashVars
        /\ UNCHANGED procVars

\* Server.handleGenerateFile and Server.handleGenerateSQL: generate, write the
\* file or run the SQL, then MarkProcessed with its error dropped
GenerateSteps == {"none", "generate", "apply"}

Generate(op, verifiedPrompt, target, code, failAt) ==
    LET hash == hashString(verifiedPrompt \o target \o code)
        err  == IF failAt = "generate" THEN "failed to generate code"
                ELSE IF failAt = "apply" THEN "failed to apply"
                ELSE ""
        result == [output_path |-> target, success |-> TRUE]
    IN  /\ targets' = IF err = "" THEN ApplyTo(targets, target, code) ELSE targets
        /\ processed_log' = IF err = "" THEN MarkProcessed(processed_log, hash, op, result, now)
                            ELSE processed_log
        /\ lastLoop' = LoopObservation(op, "", "", target,
                                       IF failAt = "generate" THEN hashString("") ELSE hash,
                                       failAt # "generate" /\ IsProcessed(processed_log, hash),
                                       err = "", err)
        /\ UNCHANGED <<sessions, session_blocks, block_refinements, now>>
        /\ UNCHANGED bashVars
        /\ UNCHANGED procVars

handleGenerateFile(verifiedPrompt, outputPath, code, failAt) ==
    Generate("generate_file", verifiedPrompt, outputPath, code, failAt)

handleGenerateSQL(verifiedPrompt, dbPath, sqlCode, failAt) ==
    Generate("generate_sql", verifiedPrompt, dbPath, sqlCode, failAt)

(***************************************************************************)
(* Registry.GetOrCreateCommand step by step.  The registry holds a         *)
(* *sql.DB and no mutex: the SELECT and the INSERT of a call are two       *)
(* statements, and statements of other callers can run between them.       *)
(***************************************************************************)
Callers == {"g1", "g2"}

\* updates counts the calls of UpdateExecution the goroutine has returned from
IdleCaller == [pc |-> "idle", text |-> "", hash |-> <<>>, err |-> "", updates |-> 0]

\* the SELECT: a row found ends the call with (hash, nil)
GetOrCreateSelect(c, commandText) ==
    LET h == calculateHash(commandText)
    IN  /\ callers[c].pc = "idle"
        /\ callers' = [callers EXCEPT ![c] =
              IF Exists(reg, h)
              THEN [pc |-> "returned", text |-> commandText, hash |-> <<h>>, err |-> "",
                    updates |-> callers[c].updates]
              ELSE [pc |-> "insert",   text |-> commandText, hash |-> <<>>,  err |-> "",
                    updates |-> callers[c].updates]]
        /\ UNCHANGED <<reg, last, securityLog, now>>
        /\ UNCHANGED loopVars
        /\ UNCHANGED <<lockVars, shutVars, limVars, clockVars>>

\* the INSERT: command_hash is the primary key, a second INSERT of the hash
\* is refused and the call returns ("", error)
GetOrCreateInsert(c) ==
    LET h == calculateHash(callers[c].text)
    IN  /\ callers[c].pc = "insert"
        /\ IF Exists(reg, h)
           THEN /\ reg' = reg
                /\ callers' = [callers EXCEPT ![c].pc = "returned",
                                              ![c].err = "failed to insert command"]
           ELSE /\ reg' = [reg EXCEPT ![h] = NewRow(callers[c].text)]
                /\ callers' = [callers EXCEPT ![c].pc = "returned", ![c].hash = <<h>>]
        /\ UNCHANGED <<last, securityLog, now>>
        /\ UNCHANGED loopVars
        /\ UNCHANGED <<lockVars, shutVars, limVars, clockVars>>

\* the caller takes the result and is ready for another call
GetOrCreateReturn(c) ==
    /\ callers[c].pc = "returned"
    /\ callers' = [callers EXCEPT ![c] = [IdleCaller EXCEPT !.updates = callers[c].updates]]
    /\ UNCHANGED <<reg, last, securityLog, now>>
    /\ UNCHANGED loopVars
    /\ UNCHANGED <<lockVars, shutVars, limVars, clockVars>>

(***************************************************************************)
(* Concurrent calls of UpdateExecution, one statement per step.  Each      *)
(* goroutine's transaction runs on its own connection of the pool.  The    *)
(* database is opened without WAL and without a busy timeout, so SQLite    *)
(* locks the file: a transaction that has read holds SHARED, the one that  *)
(* has written holds RESERVED, a second writer gets SQLITE_BUSY at once,   *)
(* and COMMIT gets SQLITE_BUSY while another connection holds SHARED.      *)
(***************************************************************************)
HoldsShared(c) == callers[c].pc \in {"selected", "updated"}

HoldsReserved(c) == callers[c].pc = "updated"

\* tx.QueryRow: the counters and the timestamps as the transaction reads them
UpdateExecutionSelect(c, commandText, exitCode) ==
    LET h == calculateHash(commandText)
    IN  /\ callers[c].pc = "idle"
        /\ Exists(reg, h)
        /\ callers' = [callers EXCEPT ![c] =
              [pc |-> "selected", text |-> commandText, hash |-> <<h>>, err |-> "",
               updates |-> callers[c].updates, exitCode |-> exitCode, row |-> reg[h]]]
        /\ UNCHANGED <<reg, last, securityLog, now>>
        /\ UNCHANGED loopVars
        /\ UNCHANGED <<lockVars, shutVars, limVars, clockVars>>

\* tx.Exec of the UPDATE: the new values are computed from what was read;
\* they stay in the transaction until it commits
UpdateExecutionExec(c, durationMs) ==
    LET h == calculateHash(callers[c].text)
    IN  /\ callers[c].pc = "selected"
        /\ IF \E o \in Callers \ {c} : HoldsReserved(o)
           THEN callers' = [callers EXCEPT ![c] =
                  [pc |-> "returned", text |-> callers[c].text, hash |-> <<h>>,
                   err |-> "failed to update execution stats",
                   updates |-> callers[c].updates + 1]]
           ELSE callers' = [callers EXCEPT
                  ![c].pc  = "updated",
                  ![c].row = UpdateExecution([reg EXCEPT ![h] = callers[c].row], h,
                                             callers[c].exitCode, durationMs, now, TRUE)[h]]
        /\ UNCHANGED <<reg, last, securityLog, now>>
        /\ UNCHANGED loopVars
        /\ UNCHANGED <<lockVars, shutVars, limVars, clockVars>>

\* tx.Commit: the row is written when no other connection is reading
UpdateExecutionCommit(c) ==
    LET h    == calculateHash(callers[c].text)
        busy == \E o \in Callers \ {c} : HoldsShared(o)
    IN  /\ callers[c].pc = "updated"
        /\ reg' = IF busy THEN reg ELSE [reg EXCEPT ![h] = callers[c].row]
        /\ callers' = [callers EXCEPT ![c] =
              [pc |-> "returned", text |-> callers[c].text, hash |-> <<h>>,
               err |-> IF busy THEN "database is locked" ELSE "",
               updates |-> callers[c].updates + 1]]
        /\ UNCHANGED <<last, securityLog, now>>
        /\ UNCHANGED loopVars
        /\ UNCHANGED <<lockVars, shutVars, limVars, clockVars>>

(***************************************************************************)
(* Manager.Refine and Manager.Commit, one statement per step, called from  *)
(* concurrent goroutines.  Both begin with m.mu.Lock() and release it by   *)
(* a deferred Unlock when they return.  A goroutine's record carries the   *)
(* request, the generated code and row: the block as the call read it,     *)
(* with the call's own writes applied since.                               *)
(***************************************************************************)
ManagerSteps ==
    { "get_block", "generate", "add_refinement", "update_code", "apply", "mark_processed",
      "commit_block", "final_get" }

InManager(c) == callers[c].pc \in ManagerSteps

mu_Lock_NoMutex(c) == TRUE

\* m.mu.Lock() returns once no other goroutine holds the mutex
mu_Lock(c) == \A o \in Callers \ {c} : ~InManager(o)

ManagerCall(pc, op, sessionID, blockID, code, row, err, updates) ==
    [pc |-> pc, text |-> "", hash |-> <<>>, err |-> err, updates |-> updates,
     op |-> op, session |-> sessionID, block |-> blockID, code |-> code, row |-> row]

mgrFrame ==
    /\ UNCHANGED <<sessions, lastLoop, now>>
    /\ UNCHANGED bashVars
    /\ UNCHANGED <<lockVars, shutVars, limVars, clockVars>>

\* the call returns with an error; the deferred Unlock runs
ManagerReturn(c, err) ==
    [callers[c] EXCEPT !.pc = "returned", !.err = err]

\* Refine or Commit is called and reaches m.mu.Lock()
ManagerEnter(c, op, sessionID, blockID) ==
    /\ callers[c].pc = "idle"
    /\ callers' = [callers EXCEPT ![c] =
          ManagerCall("lock", op, sessionID, blockID, "", NoBlock, "", callers[c].updates)]
    /\ UNCHANGED <<session_blocks, block_refinements, processed_log, targets>>
    /\ mgrFrame

ManagerLock(c) ==
    /\ callers[c].pc = "lock"
    /\ mu_Lock(c)
    /\ callers' = [callers EXCEPT ![c].pc = "get_block"]
    /\ UNCHANGED <<session_blocks, block_refinements, processed_log, targets>>
    /\ mgrFrame

\* GetBlock and the session test
ManagerGetBlock(c) ==
    LET block == session_blocks[callers[c].block]
    IN  /\ callers[c].pc = "get_block"
        /\ callers' = [callers EXCEPT ![c] =
              IF block = NoBlock THEN ManagerReturn(c, "failed to retrieve block")
              ELSE IF block.session_id # callers[c].session
              THEN ManagerReturn(c, "block does not belong to session")
              ELSE [callers[c] EXCEPT !.pc = "generate", !.row = block]]
        /\ UNCHANGED <<session_blocks, block_refinements, processed_log, targets>>
        /\ mgrFrame

\* generateCode, and Commit's switch on the block type
ManagerGenerate(c, code) ==
    /\ callers[c].pc = "generate"
    /\ callers' = [callers EXCEPT ![c] =
          IF callers[c].op = "refine"
          THEN [callers[c] EXCEPT !.pc = "add_refinement", !.code = code]
          ELSE IF callers[c].row.type \notin SupportedTypes
          THEN ManagerReturn(c, "unsupported block type")
          ELSE [callers[c] EXCEPT !.pc = "apply", !.code = code]]
    /\ UNCHANGED <<session_blocks, block_refinements, processed_log, targets>>
    /\ mgrFrame

\* Refine: AddRefinement
ManagerAddRefinement(c) ==
    /\ callers[c].pc = "add_refinement"
    /\ block_refinements' =
          AddRefinement(block_refinements, callers[c].block, "feedback", callers[c].code, now)
    /\ callers' = [callers EXCEPT ![c].pc = "update_code"]
    /\ UNCHANGED <<session_blocks, processed_log, targets>>
    /\ mgrFrame

\* Commit: os.WriteFile or executeSQL
ManagerApply(c) ==
    /\ callers[c].pc = "apply"
    /\ targets' = ApplyTo(targets, callers[c].row.target, callers[c].code)
    /\ callers' = [callers EXCEPT ![c].pc = "mark_processed"]
    /\ UNCHANGED <<session_blocks, block_refinements, processed_log>>
    /\ mgrFrame

\* Commit: MarkProcessed
ManagerMarkProcessed(c) ==
    LET hash   == calculateCommitHash(callers[c].session, callers[c].block, callers[c].code)
        result == [block_id |-> callers[c].block, output_path |-> callers[c].row.target,
                   type |-> callers[c].row.type]
    IN  /\ callers[c].pc = "mark_processed"
        /\ processed_log' = MarkProcessed(processed_log, hash, "commit", result, now)
        /\ callers' = [callers EXCEPT ![c] =
              IF MarkProcessedErr(processed_log, hash)
              THEN ManagerReturn(c, "failed to mark processed")
              ELSE [callers[c] EXCEPT !.pc = "commit_block"]]
        /\ UNCHANGED <<session_blocks, block_refinements, targets>>
        /\ mgrFrame

\* Commit: CommitBlock
ManagerCommitBlock(c) ==
    LET b == callers[c].block
    IN  /\ callers[c].pc = "commit_block"
        /\ session_blocks' = CommitBlock(session_blocks, b, now)
        /\ callers' = [callers EXCEPT
              ![c].pc  = "update_code",
              ![c].row = CommitBlock([session_blocks EXCEPT ![b] = callers[c].row], b, now)[b]]
        /\ UNCHANGED <<block_refinements, processed_log, targets>>
        /\ mgrFrame

\* Refine and Commit: UpdateBlockCode
ManagerUpdateBlockCode(c) ==
    LET b == callers[c].block
    IN  /\ callers[c].pc = "update_code"
        /\ session_blocks' = UpdateBlockCode(session_blocks, b, callers[c].code, now)
        /\ callers' = [callers EXCEPT
              ![c].pc  = "final_get",
              ![c].row = UpdateBlockCode([session_blocks EXCEPT ![b] = callers[c].row], b,
                                         callers[c].code, now)[b]]
        /\ UNCHANGED <<block_refinements, processed_log, targets>>
        /\ mgrFrame

\* the last GetBlock and the return of the response
ManagerFinalGet(c) ==
    /\ callers[c].pc = "final_get"
    /\ callers' = [callers EXCEPT ![c] = ManagerReturn(c, "")]
    /\ UNCHANGED <<session_blocks, block_refinements, processed_log, targets>>
    /\ mgrFrame

\* a statement of the call returns an error: the call returns at once
ManagerFail(c) ==
    /\ callers[c].pc \in ManagerSteps \ {"get_block", "mark_processed"}
    /\ callers' = [callers EXCEPT ![c] = ManagerReturn(c, "failed at " \o callers[c].pc)]
    /\ UNCHANGED <<session_blocks, block_refinements, processed_log, targets>>
    /\ mgrFrame

(***************************************************************************)
(* checkSingleInstance and the end of main, one system call per step.      *)
(***************************************************************************)
MaxInstances == 3

Pids == 1..MaxInstances

NoFile == [absent |-> TRUE]

NewInstance == [pc |-> "idle", seen |-> <<>>]

\* os.OpenFile(lockFile, O_CREATE|O_EXCL|O_WRONLY): the new inode of process p, still empty
CreateExclusive(p) == [creator |-> p, content |-> <<>>]

\* processExists: signal 0 reaches every process that has started and not ended
processExists(pid) == inst[pid].pc \notin {"idle", "failed", "exited", "dead"}

lockFrame ==
    /\ UNCHANGED <<reg, last, securityLog, now, callers>>
    /\ UNCHANGED loopVars
    /\ UNCHANGED shutVars
    /\ UNCHANGED limVars
    /\ UNCHANGED clockVars

StartInstance(p) ==
    /\ inst[p].pc = "idle"
    /\ inst' = [inst EXCEPT ![p].pc = "create"]
    /\ UNCHANGED lockFile
    /\ lockFrame

\* first os.OpenFile: EEXIST sends the caller to os.ReadFile
OpenExclusive(p) ==
    /\ inst[p].pc = "create"
    /\ IF lockFile = NoFile
       THEN /\ lockFile' = CreateExclusive(p)
            /\ inst' = [inst EXCEPT ![p].pc = "write"]
       ELSE /\ UNCHANGED lockFile
            /\ inst' = [inst EXCEPT ![p].pc = "read"]
    /\ lockFrame

\* os.ReadFile and fmt.Sscanf("%d"): a missing or empty file skips the liveness test
ReadLockFile(p) ==
    /\ inst[p].pc = "read"
    /\ IF lockFile = NoFile \/ lockFile.content = <<>>
       THEN inst' = [inst EXCEPT ![p].pc = "retry"]
       ELSE inst' = [inst EXCEPT ![p] = [pc |-> "probe", seen |-> lockFile.content]]
    /\ UNCHANGED lockFile
    /\ lockFrame

ProbeProcess(p) ==
    /\ inst[p].pc = "probe"
    /\ IF processExists(inst[p].seen[1])
       THEN inst' = [inst EXCEPT ![p].pc = "failed"]
       ELSE inst' = [inst EXCEPT ![p].pc = "remove"]
    /\ UNCHANGED lockFile
    /\ lockFrame

\* os.Remove(lockFile): removes whatever file has the name now
RemoveStale(p) ==
    /\ inst[p].pc = "remove"
    /\ lockFile' = NoFile
    /\ inst' = [inst EXCEPT ![p].pc = "retry"]
    /\ lockFrame

RetryOpenExclusive(p) ==
    /\ inst[p].pc = "retry"
    /\ IF lockFile = NoFile
       THEN /\ lockFile' = CreateExclusive(p)
            /\ inst' = [inst EXCEPT ![p].pc = "write"]
       ELSE /\ UNCHANGED lockFile
            /\ inst' = [inst EXCEPT ![p].pc = "failed"]
    /\ lockFrame

\* file.WriteString(pid): written to the inode p created, which the name may no longer denote
WritePid(p) ==
    /\ inst[p].pc = "write"
    /\ lockFile' = IF lockFile # NoFile /\ lockFile.creator = p
                   THEN [lockFile EXCEPT !.content = <<p>>]
                   ELSE lockFile
    /\ inst' = [inst EXCEPT ![p].pc = "running"]
    /\ lockFrame

\* main returns: the deferred os.Remove(lockFile) runs
ExitInstance(p) ==
    /\ inst[p].pc = "running"
    /\ lockFile' = NoFile
    /\ inst' = [inst EXCEPT ![p].pc = "exited"]
    /\ lockFrame

\* log.Fatalf after the check (or a kill): the process ends, no deferred call runs
FatalExit(p) ==
    /\ inst[p].pc = "running"
    /\ inst' = [inst EXCEPT ![p].pc = "dead"]
    /\ UNCHANGED lockFile
    /\ lockFrame

(***************************************************************************)
(* main's select loop, Worker.shutdown and the MCP server's request loop.  *)
(* Time advances in seconds.                                               *)
(***************************************************************************)
ShutdownDeadline == 55

ShutdownSleep == 2

Databases == {"input", "lifecycle", "output", "metadata"}

UsedDatabases == Databases \cup {"command_security"}

OpDurations == {1, 3}

NoOp == [state |-> "none"]

InFlight == inflight.state = "running"

shutFrame ==
    /\ UNCHANGED <<reg, last, securityLog, now, callers>>
    /\ UNCHANGED loopVars
    /\ UNCHANGED lockVars
    /\ UNCHANGED limVars
    /\ UNCHANGED clockVars

\* Server.Serve reads a request and handles it; it needs duration more seconds
StartOperation(duration) ==
    /\ worker.pc # "exited"
    /\ ~InFlight
    /\ inflight' = [state |-> "running", left |-> duration, atSignal |-> FALSE,
                    leftAtSignal |-> 0]
    /\ UNCHANGED <<worker, checkpointed, closedDBs, heartbeat>>
    /\ shutFrame

\* ticker.C in main's select
Heartbeat ==
    /\ worker.pc = "running"
    /\ heartbeat' = "running"
    /\ UNCHANGED <<worker, inflight, checkpointed, closedDBs>>
    /\ shutFrame

\* one second passes: the request in flight and time.Sleep both advance
Second ==
    /\ worker.pc # "exited"
    /\ InFlight \/ (worker.pc = "sleep" /\ worker.sleepLeft > 0)
    /\ ~(worker.pc = "sleep" /\ worker.sleepLeft = 0)
    /\ inflight' = IF InFlight
                   THEN IF inflight.left = 1
                        THEN [inflight EXCEPT !.state = "done", !.left = 0]
                        ELSE [inflight EXCEPT !.left = @ - 1]
                   ELSE inflight
    /\ worker' = IF worker.pc = "sleep"
                 THEN [worker EXCEPT !.sleepLeft = @ - 1]
                 ELSE worker
    /\ UNCHANGED <<checkpointed, closedDBs, heartbeat>>
    /\ shutFrame

\* sigChan in main's select: SIGTERM or SIGINT
ReceiveSignal ==
    /\ worker.pc = "running"
    /\ worker' = [worker EXCEPT !.pc = "shutdown"]
    /\ inflight' = IF InFlight
                   THEN [inflight EXCEPT !.atSignal = TRUE, !.leftAtSignal = inflight.left]
                   ELSE inflight
    /\ UNCHANGED <<checkpointed, closedDBs, heartbeat>>
    /\ shutFrame

\* Server.Shutdown: cancels the server's context, which no handler reads
ServerShutdown(op) == op

\* Worker.shutdown up to time.Sleep: heartbeat, cancel, Server.Shutdown
BeginShutdown ==
    /\ worker.pc = "shutdown"
    /\ heartbeat' = "shutting_down"
    /\ inflight' = ServerShutdown(inflight)
    /\ worker' = [pc |-> "sleep", sleepLeft |-> ShutdownSleep]
    /\ UNCHANGED <<checkpointed, closedDBs>>
    /\ shutFrame

\* time.Sleep returns
EndSleep ==
    /\ worker.pc = "sleep"
    /\ worker.sleepLeft = 0
    /\ worker' = [worker EXCEPT !.pc = "checkpoint"]
    /\ UNCHANGED <<inflight, checkpointed, closedDBs, heartbeat>>
    /\ shutFrame

\* PRAGMA wal_checkpoint(RESTART) on one database of the map, in the map's order
Checkpoint(db) ==
    /\ worker.pc = "checkpoint"
    /\ db \in Databases \ checkpointed
    /\ checkpointed' = checkpointed \cup {db}
    /\ UNCHANGED <<worker, inflight, closedDBs, heartbeat>>
    /\ shutFrame

\* the loop over the map ends, recordEvent, Worker.shutdown returns
EndShutdown ==
    /\ worker.pc = "checkpoint"
    /\ checkpointed = Databases
    /\ worker' = [worker EXCEPT !.pc = "close"]
    /\ UNCHANGED <<inflight, checkpointed, closedDBs, heartbeat>>
    /\ shutFrame

\* main returns: closeDatabases, and the process ends with its goroutines
ExitMain ==
    /\ worker.pc = "close"
    /\ closedDBs' = Databases
    /\ worker' = [worker EXCEPT !.pc = "exited"]
    /\ inflight' = IF InFlight THEN [inflight EXCEPT !.state = "killed"] ELSE inflight
    /\ UNCHANGED <<checkpointed, heartbeat>>
    /\ shutFrame

(***************************************************************************)
(* RateLimiter.  A time.Duration is an int64 count of nanoseconds, kept    *)
(* here as four 16-bit limbs, lowest first, so that it wraps as the Go     *)
(* value does.  The clock now is in seconds.                               *)
(***************************************************************************)
Limb == 65536

\* time.Second = 1000000000 = 0x3B9ACA00
time_Second == <<51712, 15258, 0, 0>>

ZeroDuration == <<0, 0, 0, 0>>

\* d * k in int64, for a small k
RECURSIVE ScaleFrom(_, _, _, _)
ScaleFrom(d, k, i, carry) ==
    IF i > 4 THEN <<>>
    ELSE LET v == d[i] * k + carry
         IN  <<v % Limb>> \o ScaleFrom(d, k, i + 1, v \div Limb)

Scale(d, k) == ScaleFrom(d, k, 1, 0)

IsNegative(d) == d[4] >= Limb \div 2

RECURSIVE GreaterFrom(_, _, _)
GreaterFrom(d, e, i) ==
    IF i = 0 THEN FALSE
    ELSE IF d[i] # e[i] THEN d[i] > e[i]
    ELSE GreaterFrom(d, e, i - 1)

\* d > e on int64
Greater(d, e) ==
    IF IsNegative(d) # IsNegative(e) THEN IsNegative(e) ELSE GreaterFrom(d, e, 4)

\* time.Duration(1<<uint(n)) * time.Second: time.Second doubled n times in int64
RECURSIVE ShiftSeconds(_)
ShiftSeconds(n) ==
    IF n = 0 THEN time_Second
    ELSE CHOOSE doubled \in {Scale(d, 2) : d \in {ShiftSeconds(n - 1)}} : TRUE

MaxLimiterBackoff == Scale(time_Second, 300)

RefillPeriod == 60

\* NewRateLimiter(rpm)
NewRateLimiter(rpm, t) ==
    LET n == IF rpm <= 0 THEN 60 ELSE rpm
    IN  [requestsPerMinute |-> n, tokens |-> n, lastRefill |-> t,
         consecutiveErrors |-> 0, lastErrorTime |-> 0, backoffDuration |-> ZeroDuration]

RecordSuccess(r) == [r EXCEPT !.consecutiveErrors = 0, !.backoffDuration = ZeroDuration]

RecordError(r, t) ==
    LET n == r.consecutiveErrors + 1
        backoff == ShiftSeconds(n)
    IN  [r EXCEPT !.consecutiveErrors = n,
                  !.lastErrorTime = t,
                  !.backoffDuration = IF Greater(backoff, MaxLimiterBackoff)
                                      THEN MaxLimiterBackoff
                                      ELSE backoff]

\* isInBackoff: elapsed < backoffDuration, elapsed = time.Since(lastErrorTime)
isInBackoff(r, t) ==
    IF r.backoffDuration = ZeroDuration THEN FALSE
    ELSE Greater(r.backoffDuration, Scale(time_Second, t - r.lastErrorTime))

refillTokens_KeepsTokens(r, t) ==
    [r EXCEPT !.tokens = r.tokens + r.requestsPerMinute, !.lastRefill = t]

\* refillTokens: the channel is drained, then filled to capacity
refillTokens(r, t) == [r EXCEPT !.tokens = r.requestsPerMinute, !.lastRefill = t]

RLCallers == {"w1", "w2", "w3"}

IdleCall == [pc |-> "idle", op |-> "", result |-> "", cancelled |-> FALSE]

BackoffCheck(op, r, t) ==
    [op |-> op, rejected |-> isInBackoff(r, t), errors |-> r.consecutiveErrors,
     elapsed |-> t - r.lastErrorTime, tokens |-> r.tokens]

NoBackoffCheck == [op |-> "none", rejected |-> FALSE, errors |-> 0, elapsed |-> 0, tokens |-> 0]

limFrame ==
    /\ UNCHANGED <<reg, last, securityLog, callers>>
    /\ UNCHANGED loopVars
    /\ UNCHANGED lockVars
    /\ UNCHANGED shutVars
    /\ UNCHANGED <<lastExecMs, totalDurationMs>>

\* Wait, the backoff check
WaitCheck(c) ==
    /\ calls[c].pc = "idle"
    /\ calls' = [calls EXCEPT ![c] =
          IF isInBackoff(rl, now)
          THEN [pc |-> "done", op |-> "wait", result |-> "backoff_active", cancelled |-> FALSE]
          ELSE [pc |-> "select", op |-> "wait", result |-> "", cancelled |-> FALSE]]
    /\ rlLast' = BackoffCheck("wait", rl, now)
    /\ UNCHANGED <<rl, retry, acquired, now, clockMs>>
    /\ limFrame

\* Wait, the select: a token, or the context's error; with neither the caller stays blocked
WaitSelect(c) ==
    /\ calls[c].pc = "select"
    /\ calls[c].op = "wait"
    /\ \/ /\ rl.tokens > 0
          /\ rl' = [rl EXCEPT !.tokens = @ - 1]
          /\ acquired' = acquired + 1
          /\ calls' = [calls EXCEPT ![c].pc = "done", ![c].result = "ok"]
       \/ /\ calls[c].cancelled
          /\ calls' = [calls EXCEPT ![c].pc = "done", ![c].result = "context_error"]
          /\ UNCHANGED <<rl, acquired>>
    /\ UNCHANGED <<retry, rlLast, now, clockMs>>
    /\ limFrame

\* the caller's context is cancelled or reaches its deadline
CancelContext(c) ==
    /\ calls[c].pc = "select"
    /\ calls[c].op = "wait"
    /\ ~calls[c].cancelled
    /\ calls' = [calls EXCEPT ![c].cancelled = TRUE]
    /\ UNCHANGED <<rl, retry, rlLast, acquired, now, clockMs>>
    /\ limFrame

\* TryAcquire, the backoff check
TryCheck(c) ==
    /\ calls[c].pc = "idle"
    /\ calls' = [calls EXCEPT ![c] =
          IF isInBackoff(rl, now)
          THEN [pc |-> "done", op |-> "try_acquire", result |-> "false", cancelled |-> FALSE]
          ELSE [pc |-> "select", op |-> "try_acquire", result |-> "", cancelled |-> FALSE]]
    /\ rlLast' = BackoffCheck("try_acquire", rl, now)
    /\ UNCHANGED <<rl, retry, acquired, now, clockMs>>
    /\ limFrame

\* TryAcquire, the select with its default branch
TrySelect(c) ==
    /\ calls[c].pc = "select"
    /\ calls[c].op = "try_acquire"
    /\ IF rl.tokens > 0
       THEN /\ rl' = [rl EXCEPT !.tokens = @ - 1]
            /\ acquired' = acquired + 1
            /\ calls' = [calls EXCEPT ![c].pc = "done", ![c].result = "true"]
       ELSE /\ calls' = [calls EXCEPT ![c].pc = "done", ![c].result = "false"]
            /\ UNCHANGED <<rl, acquired>>
    /\ UNCHANGED <<retry, rlLast, now, clockMs>>
    /\ limFrame

\* the caller takes the result
CallReturn(c) ==
    /\ calls[c].pc = "done"
    /\ calls' = [calls EXCEPT ![c] = IdleCall]
    /\ UNCHANGED <<rl, retry, rlLast, acquired, now, clockMs>>
    /\ limFrame

LimiterRecordError ==
    /\ rl' = RecordError(rl, now)
    /\ UNCHANGED <<calls, retry, rlLast, acquired, now, clockMs>>
    /\ limFrame

LimiterRecordSuccess ==
    /\ rl' = RecordSuccess(rl)
    /\ UNCHANGED <<calls, retry, rlLast, acquired, now, clockMs>>
    /\ limFrame

\* refillLoop: the ticker fires every minute
Refill ==
    /\ now >= rl.lastRefill + RefillPeriod
    /\ rl' = refillTokens(rl, now)
    /\ acquired' = 0
    /\ UNCHANGED <<calls, retry, rlLast, now, clockMs>>
    /\ limFrame

\* d seconds pass
LimiterTick(d) ==
    /\ now' = now + d
    /\ clockMs' = clockMs + 1000 * d
    /\ UNCHANGED limVars
    /\ limFrame

(***************************************************************************)
(* The limiter's mutex, one step per Lock and Unlock.  sync.Mutex is not   *)
(* reentrant: Lock blocks while any goroutine holds it, the caller itself  *)
(* included.  A goroutine holds mu from GetStats' Lock on, and inside      *)
(* isInBackoff.                                                            *)
(***************************************************************************)
HoldsMu(c) ==
    \/ calls[c].pc = "in_backoff_check"
    \/ calls[c].op = "get_stats" /\ calls[c].pc = "backoff_check"

MuFree == \A c \in RLCallers : ~HoldsMu(c)

\* Wait is called: its first statement is the call of isInBackoff
WaitEnter(c) ==
    /\ calls[c].pc = "idle"
    /\ calls' = [calls EXCEPT ![c] =
          [pc |-> "backoff_check", op |-> "wait", result |-> "", cancelled |-> FALSE]]
    /\ UNCHANGED <<rl, retry, rlLast, acquired, now, clockMs>>
    /\ limFrame

\* GetStats: rl.mu.Lock(), len(rl.tokens), then the call of isInBackoff
GetStatsLock(c) ==
    /\ calls[c].pc = "idle"
    /\ MuFree
    /\ calls' = [calls EXCEPT ![c] =
          [pc |-> "backoff_check", op |-> "get_stats", result |-> "", cancelled |-> FALSE]]
    /\ UNCHANGED <<rl, retry, rlLast, acquired, now, clockMs>>
    /\ limFrame

\* isInBackoff: rl.mu.Lock()
isInBackoffLock(c) ==
    /\ calls[c].pc = "backoff_check"
    /\ MuFree
    /\ calls' = [calls EXCEPT ![c].pc = "in_backoff_check"]
    /\ UNCHANGED <<rl, retry, rlLast, acquired, now, clockMs>>
    /\ limFrame

\* isInBackoff returns (its deferred Unlock runs) and its caller goes on:
\* Wait to its select or its error, GetStats to its return and its Unlock
isInBackoffReturn(c) ==
    /\ calls[c].pc = "in_backoff_check"
    /\ calls' = [calls EXCEPT ![c] =
          IF calls[c].op = "get_stats"
          THEN [calls[c] EXCEPT !.pc = "done", !.result = "stats"]
          ELSE IF isInBackoff(rl, now)
          THEN [calls[c] EXCEPT !.pc = "done", !.result = "backoff_active"]
          ELSE [calls[c] EXCEPT !.pc = "select"]]
    /\ rlLast' = BackoffCheck(calls[c].op, rl, now)
    /\ UNCHANGED <<rl, retry, acquired, now, clockMs>>
    /\ limFrame

\* RecordError and ResetBackoff, each under the mutex
LockedRecordError == MuFree /\ LimiterRecordError

ResetBackoff ==
    /\ MuFree
    /\ rl' = [rl EXCEPT !.consecutiveErrors = 0, !.backoffDuration = ZeroDuration]
    /\ UNCHANGED <<calls, retry, rlLast, acquired, now, clockMs>>
    /\ limFrame

(***************************************************************************)
(* RetryWithBackoff, one step per blocking point.  The script of fn is the *)
(* number of its first invocations that fail.                              *)
(***************************************************************************)
LimiterCapacity == 1

RetryMaxRetries == 2

\* RetryConfig: MaxRetries, InitialBackoff and MaxBackoff in seconds, BackoffMultiplier
RetryConfigs ==
    { [MaxRetries |-> RetryMaxRetries, InitialBackoff |-> ib, MaxBackoff |-> 60,
       BackoffMultiplier |-> 2] : ib \in {1, 2} }

\* DefaultRetryConfig
DefaultRetryConfig ==
    [MaxRetries |-> 4, InitialBackoff |-> 2, MaxBackoff |-> 60, BackoffMultiplier |-> 2]

IdleRetry ==
    [pc |-> "idle", config |-> DefaultRetryConfig, failures |-> 0, attempt |-> 0,
     backoff |-> 0, invocations |-> 0, result |-> "", cancelled |-> FALSE, started |-> 0]

\* RetryWithBackoff is called; fn fails on its first failures invocations
RetryStart(config, failures) ==
    /\ retry.pc = "idle"
    /\ retry' = [pc |-> "wait", config |-> config, failures |-> failures, attempt |-> 0,
                 backoff |-> config.InitialBackoff, invocations |-> 0, result |-> "",
                 cancelled |-> FALSE, started |-> retry.started + 1]
    /\ UNCHANGED <<rl, calls, rlLast, acquired, now, clockMs>>
    /\ limFrame

\* rl.Wait(ctx), the backoff check
RetryWaitCheck ==
    /\ retry.pc = "wait"
    /\ retry' = IF isInBackoff(rl, now)
                THEN [retry EXCEPT !.pc = "done", !.result = "rate limit wait failed"]
                ELSE [retry EXCEPT !.pc = "select"]
    /\ rlLast' = BackoffCheck("wait", rl, now)
    /\ UNCHANGED <<rl, calls, acquired, now, clockMs>>
    /\ limFrame

\* rl.Wait(ctx), the select
RetryWaitSelect ==
    /\ retry.pc = "select"
    /\ \/ /\ rl.tokens > 0
          /\ rl' = [rl EXCEPT !.tokens = @ - 1]
          /\ acquired' = acquired + 1
          /\ retry' = [retry EXCEPT !.pc = "call"]
       \/ /\ retry.cancelled
          /\ retry' = [retry EXCEPT !.pc = "done", !.result = "rate limit wait failed"]
          /\ UNCHANGED <<rl, acquired>>
    /\ UNCHANGED <<calls, rlLast, now, clockMs>>
    /\ limFrame

\* fn() and the record of its outcome
RetryCall ==
    /\ retry.pc = "call"
    /\ IF retry.invocations >= retry.failures
       THEN /\ rl' = RecordSuccess(rl)
            /\ retry' = [retry EXCEPT !.pc = "done", !.result = "ok",
                                      !.invocations = @ + 1]
       ELSE /\ rl' = RecordError(rl, now)
            /\ retry' = IF retry.attempt = retry.config.MaxRetries
                        THEN [retry EXCEPT !.pc = "done", !.result = "max retries exceeded",
                                           !.invocations = @ + 1]
                        ELSE [retry EXCEPT !.pc = "sleep", !.invocations = @ + 1]
    /\ UNCHANGED <<calls, rlLast, acquired, now, clockMs>>
    /\ limFrame

\* time.After(backoff) fires, the backoff grows, the loop goes round
RetrySleep ==
    /\ retry.pc = "sleep"
    /\ ~retry.cancelled
    /\ now' = now + retry.backoff
    /\ clockMs' = clockMs + 1000 * retry.backoff
    /\ retry' = LET next == retry.backoff * retry.config.BackoffMultiplier
                IN  [retry EXCEPT !.pc = "wait", !.attempt = @ + 1,
                                  !.backoff = IF next > retry.config.MaxBackoff
                                              THEN retry.config.MaxBackoff
                                              ELSE next]
    /\ UNCHANGED <<rl, calls, rlLast, acquired>>
    /\ limFrame

\* ctx.Done() during the sleep
RetrySleepCancelled ==
    /\ retry.pc = "sleep"
    /\ retry.cancelled
    /\ retry' = [retry EXCEPT !.pc = "done", !.result = "context_error"]
    /\ UNCHANGED <<rl, calls, rlLast, acquired, now, clockMs>>
    /\ limFrame

\* the context of the call is cancelled
RetryCancel ==
    /\ retry.pc \in {"select", "sleep"}
    /\ ~retry.cancelled
    /\ retry' = [retry EXCEPT !.cancelled = TRUE]
    /\ UNCHANGED <<rl, calls, rlLast, acquired, now, clockMs>>
    /\ limFrame

\* the caller takes the result
RetryReturn ==
    /\ retry.pc = "done"
    /\ retry' = [IdleRetry EXCEPT !.started = retry.started]
    /\ UNCHANGED <<rl, calls, rlLast, acquired, now, clockMs>>
    /\ limFrame

Init ==
    /\ reg = [h \in Hashes |-> NoRow]
    /\ now = 1
    /\ last = NoObservation
    /\ securityLog = {}
    /\ sessions = [sid \in SessionIds |-> NoSession]
    /\ session_blocks = [b \in BlockIds |-> NoBlock]
    /\ block_refinements = <<>>
    /\ processed_log = {}
    /\ targets = [tg \in Targets |-> [content |-> NULL, mutations |-> 0]]
    /\ lastLoop = NoLoopObservation
    /\ callers = [c \in Callers |-> IdleCaller]
    /\ lockFile = NoFile
    /\ inst = [p \in Pids |-> NewInstance]
    /\ worker = [pc |-> "running", sleepLeft |-> 0]
    /\ inflight = NoOp
    /\ checkpointed = {}
    /\ closedDBs = {}
    /\ heartbeat = "none"
    /\ rl = NewRateLimiter(LimiterCapacity, 1)
    /\ calls = [c \in RLCallers |-> IdleCall]
    /\ retry = IdleRetry
    /\ rlLast = NoBackoffCheck
    /\ acquired = 0
    /\ clockMs = 1000
    /\ lastExecMs = 1000
    /\ totalDurationMs = 0

\* Registry.PromoteToAutoApprove called on a registered command
CallPromoteToAutoApprove(command, lockOk) ==
    LET h == calculateHash(command)
    IN  /\ Exists(reg, h)
        /\ reg' = PromotePolicy(reg, h, "auto_approve", now, lockOk)
        /\ securityLog' = PromotePolicyLog(reg, h, lockOk)
        /\ last' = Observation("promote_policy", command, FALSE, TRUE, NewRow(command), "", "", FALSE)
        /\ now' = now
        /\ UNCHANGED loopVars
        /\ UNCHANGED procVars

\* time.Now().Unix()
Unix(ms) == ms \div 1000

\* time passes, in milliseconds, between two calls of the governor
ClockTick(d) ==
    /\ clockMs' = clockMs + d
    /\ now' = Unix(clockMs + d)
    /\ last' = NoObservation
    /\ UNCHANGED <<reg, securityLog, lastExecMs, totalDurationMs>>
    /\ UNCHANGED loopVars
    /\ UNCHANGED <<callers, lockVars, shutVars, limVars>>

(***************************************************************************)
(* Bounds of the model.  A behaviour follows one command text (every       *)
(* statement of the registry is keyed by command_hash).  Spec explores the *)
(* governor with every operator call and the clock over a short horizon;   *)
(* SpecEvo follows a command past the promotion threshold.                 *)
(***************************************************************************)
GovMaxExec == 2
GovMaxTicks == 1
EvoMaxExec == 22
EvoMaxFail == 2

PolicyInputs == {"ask", "auto_approve", "never"}

Durations == {100}

\* the client of this behaviour issues a single command text
SingleText(command) ==
    \A k \in Hashes : Exists(reg, k) => k = calculateHash(command)

\* the executions a row may still record under the bounds
WithinExec(command, outcome, maxExec, maxFail) ==
    LET h == calculateHash(command)
    IN  Exists(reg, h) =>
          /\ reg[h].execution_count < maxExec
          /\ outcome = "exit1" => reg[h].failure_count < maxFail

\* the outcome of PromotePolicy's locking query is an input only of a call
\* that can reach it
LockFailures(command) ==
    LET h == calculateHash(command)
    IN  IF Exists(reg, h) /\ reg[h].execution_count + 1 >= PromotionMinExecutions
        THEN BOOLEAN ELSE {FALSE}

GovExecute ==
    \E c \in Commands, f \in BOOLEAN, o \in ExecOutcomes, d \in Durations, updFails \in BOOLEAN :
      \E lockFails \in LockFailures(c) :
        /\ SingleText(c)
        /\ WithinExec(c, o, GovMaxExec, GovMaxExec)
        /\ HandleExecuteBash(c, f, o, d, ~updFails, ~lockFails)

GovSetPolicy ==
    \E c \in Commands, p \in PolicyInputs, ov \in BOOLEAN : OperatorSetPolicy(c, p, ov)

GovCheckAutoEvolution ==
    \E c \in Commands, lockFails \in BOOLEAN : CallRegistryCheckAutoEvolution(c, ~lockFails)

GovPromote ==
    \E c \in Commands, lockFails \in BOOLEAN : CallPromoteToAutoApprove(c, ~lockFails)

GovTick ==
    /\ now < 1 + GovMaxTicks
    /\ Tick(1)

Next ==
    \/ GovExecute
    \/ GovSetPolicy
    \/ GovCheckAutoEvolution
    \/ GovPromote
    \/ GovTick

Spec == Init /\ [][Next]_vars

\* the command texts followed past the promotion threshold
EvoCommands == {"ls -la", "chmod 644 f", "rm a; chmod 644 b"}

EvoExecute ==
    \E c \in EvoCommands, f \in BOOLEAN, o \in {"exit0", "exit1"}, d \in Durations :
      \E lockFails \in LockFailures(c) :
        /\ SingleText(c)
        /\ WithinExec(c, o, EvoMaxExec, EvoMaxFail)
        /\ HandleExecuteBash(c, f, o, d, TRUE, ~lockFails)

EvoSetPolicy ==
    \E c \in EvoCommands :
        \/ OperatorSetPolicy(c, "ask", FALSE)
        \/ OperatorSetPolicy(c, "never", TRUE)

EvoCheckAutoEvolution ==
    \E c \in EvoCommands, lockFails \in BOOLEAN : CallRegistryCheckAutoEvolution(c, ~lockFails)

NextEvo ==
    \/ EvoExecute
    \/ EvoSetPolicy
    \/ EvoCheckAutoEvolution

SpecEvo == Init /\ [][NextEvo]_vars

(***************************************************************************)
(* SpecLoop: the session manager and the generate handlers over the        *)
(* lifecycle database.                                                     *)
(***************************************************************************)
LoopMaxSessions == 1
LoopMaxMutations == 2
LoopMaxIterations == 3
LoopMaxRefinements == 1

Prompts == {"p"}

\* the requests of a propose: block inputs with different ids
ProposeRequests ==
    { ins \in SUBSET BlockInputs :
        ins # {} /\ \A i, j \in ins : i.ID = j.ID => i = j }

\* uuid.New(): an id no session has
FreshSessionIds ==
    LET unused == { sid \in SessionIds : sessions[sid] = NoSession }
    IN  IF unused = {} \/ Cardinality(SessionIds \ unused) >= LoopMaxSessions THEN {}
        ELSE { CHOOSE sid \in unused : TRUE }

WithinMutations ==
    targets["out.go"].mutations + targets["app.db"].mutations < LoopMaxMutations

WithinIterations(blockID) ==
    session_blocks[blockID] # NoBlock => session_blocks[blockID].iterations < LoopMaxIterations

LoopPropose ==
    \E sid \in FreshSessionIds, ins \in ProposeRequests, code \in Codes :
      \E failing \in SUBSET { i.ID : i \in ins } :
        Propose(sid, ins, [b \in BlockIds |-> code], failing)

\* the inputs that make a difference: a request the manager refuses at once
\* reads neither the generated code nor a later step's outcome
Accepted(sid, b) ==
    session_blocks[b] # NoBlock /\ session_blocks[b].session_id = sid

RelevantCodes(sid, b, failAt) ==
    IF Accepted(sid, b) /\ failAt # "generate" THEN Codes ELSE {"codeA"}

RelevantSteps(sid, b, steps) ==
    IF Accepted(sid, b) THEN steps ELSE {"none"}

LoopRefine ==
    \E sid \in SessionIds, b \in BlockIds :
      \E failAt \in RelevantSteps(sid, b, RefineSteps) :
        \E code \in RelevantCodes(sid, b, failAt) :
        /\ Len(block_refinements) < LoopMaxRefinements
        /\ WithinIterations(b)
        /\ Refine(sid, b, "feedback", code, failAt)

LoopCommit ==
    \E sid \in SessionIds, b \in BlockIds :
      \E failAt \in RelevantSteps(sid, b, CommitSteps) :
        \E code \in RelevantCodes(sid, b, failAt) :
        /\ WithinMutations
        /\ WithinIterations(b)
        /\ Commit(sid, b, code, failAt)

LoopGenerateFile ==
    \E pr \in Prompts, failAt \in GenerateSteps :
      \E code \in (IF failAt = "generate" THEN {"codeA"} ELSE Codes) :
        /\ WithinMutations
        /\ handleGenerateFile(pr, "out.go", code, failAt)

LoopGenerateSQL ==
    \E pr \in Prompts, failAt \in GenerateSteps :
      \E code \in (IF failAt = "generate" THEN {"codeA"} ELSE Codes) :
        /\ WithinMutations
        /\ handleGenerateSQL(pr, "app.db", code, failAt)

NextLoop ==
    \/ LoopPropose
    \/ LoopRefine
    \/ LoopCommit
    \/ LoopGenerateFile
    \/ LoopGenerateSQL

SpecLoop == Init /\ [][NextLoop]_vars

(***************************************************************************)
(* SpecCallers: concurrent calls of GetOrCreateCommand.                    *)
(***************************************************************************)
CallerTexts == {"ls -la", "chmod 644 f", "sudo ls"}

NextCallers ==
    \/ \E c \in Callers, text \in CallerTexts : GetOrCreateSelect(c, text)
    \/ \E c \in Callers : GetOrCreateInsert(c)
    \/ \E c \in Callers : GetOrCreateReturn(c)

SpecCallers == Init /\ [][NextCallers]_vars

(***************************************************************************)
(* SpecUpdate: the goroutines of concurrent execute_bash requests for one  *)
(* command, each registering it and then recording its execution.          *)
(***************************************************************************)
UpdateMaxCalls == 3

UpdateCommand == "ls -la"

RECURSIVE SumUpdates(_)
\* the calls of UpdateExecution that have returned, over a set of goroutines
SumUpdates(cs) ==
    IF cs = {} THEN 0
    ELSE LET c == CHOOSE x \in cs : TRUE
         IN  callers[c].updates + SumUpdates(cs \ {c})

UpdateStart ==
    \E c \in Callers, exitCode \in {0, 1} :
        /\ SumUpdates(Callers) + Cardinality({o \in Callers : HoldsShared(o)}) < UpdateMaxCalls
        /\ UpdateExecutionSelect(c, UpdateCommand, exitCode)

NextUpdate ==
    \/ \E c \in Callers : GetOrCreateSelect(c, UpdateCommand)
    \/ \E c \in Callers : GetOrCreateInsert(c)
    \/ \E c \in Callers : GetOrCreateReturn(c)
    \/ UpdateStart
    \/ \E c \in Callers, d \in Durations : UpdateExecutionExec(c, d)
    \/ \E c \in Callers : UpdateExecutionCommit(c)

SpecUpdate == Init /\ [][NextUpdate]_vars

(***************************************************************************)
(* SpecManager: two goroutines refine and commit the block of one session. *)
(***************************************************************************)
ManagerMaxIterations == 2

ManagerMaxMutations == 1

ManagerMaxRefinements == 1

ManagerSession == "s1"

ManagerBlock == "b1"

ManagerPropose ==
    /\ \A c \in Callers : ~InManager(c)
    /\ Propose(ManagerSession, {[ID |-> ManagerBlock, Type |-> "go", Target |-> "out.go"]},
               [b \in BlockIds |-> "codeA"], {})

ManagerStart ==
    \E c \in Callers, op \in {"refine", "commit"} :
        /\ session_blocks[ManagerBlock] # NoBlock
        /\ session_blocks[ManagerBlock].iterations <= ManagerMaxIterations
        /\ op = "refine" => Len(block_refinements) < ManagerMaxRefinements
        /\ op = "commit" => targets["out.go"].mutations < ManagerMaxMutations
        /\ ManagerEnter(c, op, ManagerSession, ManagerBlock)

NextManager ==
    \/ ManagerPropose
    \/ ManagerStart
    \/ \E c \in Callers : ManagerLock(c)
    \/ \E c \in Callers : ManagerGetBlock(c)
    \/ \E c \in Callers, code \in Codes : ManagerGenerate(c, code)
    \/ \E c \in Callers : ManagerAddRefinement(c)
    \/ \E c \in Callers : ManagerApply(c)
    \/ \E c \in Callers : ManagerMarkProcessed(c)
    \/ \E c \in Callers : ManagerCommitBlock(c)
    \/ \E c \in Callers : ManagerUpdateBlockCode(c)
    \/ \E c \in Callers : ManagerFinalGet(c)
    \/ \E c \in Callers : ManagerFail(c)
    \/ \E c \in Callers : GetOrCreateReturn(c)

SpecManager == Init /\ [][NextManager]_vars

(***************************************************************************)
(* SpecDup: one command under policy ask, executed on the operator's       *)
(* confirmation and invoked again around the duplicate threshold.          *)
(***************************************************************************)
DupMaxExec == 2

DupCommand == "ls -la"

DupTimes == {1000, 1001, 1500, 1999, 2000, 2001}

DupSteps == {1, 499, 500, 998, 999, 1000}

DupExecute ==
    \E f \in BOOLEAN, o \in ExecOutcomes :
        /\ WithinExec(DupCommand, o, DupMaxExec, DupMaxExec)
        /\ HandleExecuteBash(DupCommand, f, o, 100, TRUE, TRUE)

DupSetPolicy == OperatorSetPolicy(DupCommand, "ask", FALSE)

DupTick == \E d \in DupSteps : (clockMs + d \in DupTimes /\ ClockTick(d))

NextDup ==
    \/ DupExecute
    \/ DupSetPolicy
    \/ DupTick

SpecDup == Init /\ [][NextDup]_vars

(***************************************************************************)
(* SpecMon: one command run past the monitoring threshold and past the     *)
(* 100 kept timestamps.  SpecAvg: a few executions of unequal durations.   *)
(***************************************************************************)
MonMaxExec == 101

MonMaxFail == 1

MonMaxTicks == 1

MonExecute ==
    \E f \in BOOLEAN, o \in {"exit0", "exit1"} :
        /\ WithinExec(DupCommand, o, MonMaxExec, MonMaxFail)
        /\ HandleExecuteBash(DupCommand, f, o, 100, TRUE, TRUE)

\* the clock moves between the first executions only
MonTick ==
    /\ now < 1 + MonMaxTicks
    /\ Exists(reg, calculateHash(DupCommand))
    /\ reg[calculateHash(DupCommand)].execution_count = 1
    /\ Tick(1)

NextMon ==
    \/ MonExecute
    \/ DupSetPolicy
    \/ MonTick

SpecMon == Init /\ [][NextMon]_vars

AvgMaxExec == 4

AvgDurations == {1, 2}

AvgExecute ==
    \E o \in {"exit0", "exit1"}, d \in AvgDurations, updFails \in BOOLEAN :
        /\ WithinExec(DupCommand, o, AvgMaxExec, AvgMaxExec)
        /\ HandleExecuteBash(DupCommand, TRUE, o, d, ~updFails, TRUE)

NextAvg ==
    \/ AvgExecute
    \/ DupSetPolicy

SpecAvg == Init /\ [][NextAvg]_vars

NextLock ==
    \/ \E p \in Pids : StartInstance(p)
    \/ \E p \in Pids : OpenExclusive(p)
    \/ \E p \in Pids : ReadLockFile(p)
    \/ \E p \in Pids : ProbeProcess(p)
    \/ \E p \in Pids : RemoveStale(p)
    \/ \E p \in Pids : RetryOpenExclusive(p)
    \/ \E p \in Pids : WritePid(p)
    \/ \E p \in Pids : ExitInstance(p)
    \/ \E p \in Pids : FatalExit(p)

SpecLock == Init /\ [][NextLock]_vars

NextShutdown ==
    \/ \E duration \in OpDurations : StartOperation(duration)
    \/ Heartbeat
    \/ Second
    \/ ReceiveSignal
    \/ BeginShutdown
    \/ EndSleep
    \/ \E db \in Databases : Checkpoint(db)
    \/ EndShutdown
    \/ ExitMain

SpecShutdown == Init /\ [][NextShutdown]_vars

(***************************************************************************)
(* SpecLimiter: goroutines in Wait and TryAcquire around one refill, with  *)
(* no backoff.                                                             *)
(* SpecBackoff: one goroutine and a long run of consecutive errors.        *)
(* SpecRetry: RetryWithBackoff calls on one limiter.                       *)
(***************************************************************************)
LimMaxRefills == 1

LimiterNext ==
    \/ \E c \in RLCallers : WaitCheck(c)
    \/ \E c \in RLCallers : WaitSelect(c)
    \/ \E c \in RLCallers : CancelContext(c)
    \/ \E c \in RLCallers : TryCheck(c)
    \/ \E c \in RLCallers : TrySelect(c)
    \/ \E c \in RLCallers : CallReturn(c)
    \/ Refill
    \/ (now < 1 + LimMaxRefills * RefillPeriod /\ LimiterTick(RefillPeriod))

SpecLimiter == Init /\ [][LimiterNext]_vars

BackoffMaxErrors == 36

BackoffTimes == (1..6) \cup (300..302)

BackoffSteps == {1, 294}

BackoffCaller == "w1"

BackoffNext ==
    \/ WaitCheck(BackoffCaller)
    \/ WaitSelect(BackoffCaller)
    \/ TryCheck(BackoffCaller)
    \/ TrySelect(BackoffCaller)
    \/ CallReturn(BackoffCaller)
    \/ (rl.consecutiveErrors < BackoffMaxErrors /\ now = 1 /\ LimiterRecordError)
    \/ (rl.consecutiveErrors > 0 /\ now = 1 /\ LimiterRecordSuccess)
    \/ Refill
    \/ \E d \in BackoffSteps : (now + d \in BackoffTimes /\ LimiterTick(d))

SpecBackoff == Init /\ [][BackoffNext]_vars

RetryMaxCalls == 2

RetryNext ==
    \/ \E config \in RetryConfigs, failures \in 0..(RetryMaxRetries + 1) :
          (retry.started < RetryMaxCalls /\ RetryStart(config, failures))
    \/ RetryWaitCheck
    \/ RetryWaitSelect
    \/ RetryCall
    \/ RetrySleep
    \/ RetrySleepCancelled
    \/ RetryCancel
    \/ RetryReturn
    \/ Refill
    \/ (now <= RetryMaxCalls * RefillPeriod /\ LimiterTick(RefillPeriod))

SpecRetry == Init /\ [][RetryNext]_vars

(***************************************************************************)
(* SpecStats: goroutines calling Wait and GetStats while errors are        *)
(* recorded and the backoff is reset.  SpecStatsFair adds the scheduler:   *)
(* a goroutine that can take its next step takes it.                       *)
(***************************************************************************)
StatsMaxErrors == 1

NextStats ==
    \/ \E c \in RLCallers : WaitEnter(c)
    \/ \E c \in RLCallers : GetStatsLock(c)
    \/ \E c \in RLCallers : isInBackoffLock(c)
    \/ \E c \in RLCallers : isInBackoffReturn(c)
    \/ \E c \in RLCallers : WaitSelect(c)
    \/ \E c \in RLCallers : CallReturn(c)
    \/ (rl.consecutiveErrors < StatsMaxErrors /\ LockedRecordError)
    \/ (rl.consecutiveErrors > 0 /\ ResetBackoff)

SpecStats == Init /\ [][NextStats]_vars

SpecStatsFair ==
    /\ SpecStats
    /\ \A c \in RLCallers :
          /\ WF_vars(isInBackoffLock(c))
          /\ WF_vars(isInBackoffReturn(c))
          /\ WF_vars(WaitSelect(c))

(***************************************************************************)
(* Claims about the governor.                                              *)
(***************************************************************************)

\* C1: an execute_bash call on a command whose user_override is 'never' never
\* launches the executor, whatever force_execute and current_policy are.
C1_NeverOverrideBlocks ==
    (last.op = "execute_bash" /\ last.override = "never") => ~last.launched

\* C2: an execute_bash call with force_execute = true on a command that
\* matches the dangerous-pattern set is rejected as an action failure and the
\* executor is not launched.
C2_DangerousRejected ==
    (last.op = "execute_bash" /\ last.force /\ MatchesDangerousPattern(last.command))
        => (~last.launched /\ last.status = "validation_failed")

\* C3 as stated: an execute_bash call with force_execute = false on a command
\* whose current_policy column is ask does not run the executor and answers
\* pending_validation or duplicate_warning.
C3_CurrentPolicyAskNotExecuted ==
    (last.op = "execute_bash" /\ ~last.force /\ last.status # "validation_failed"
        /\ last.current = "ask")
        => (~last.launched /\ last.status \in {"pending_validation", "duplicate_warning"})

\* C3 amended: an execute_bash call with force_execute = false on a command
\* whose effective policy (get_policy: user_override when set, otherwise
\* current_policy) is ask does not run the executor and answers
\* pending_validation or duplicate_warning.
C3_EffectiveAskNotExecuted ==
    (last.op = "execute_bash" /\ ~last.force /\ last.status # "validation_failed"
        /\ last.policy = "ask")
        => (~last.launched /\ last.status \in {"pending_validation", "duplicate_warning"})

\* an unforced call on an ask command right after an execution of it: the
\* duplicate warning, with no process started
C3_Witness ==
    /\ last.op = "execute_bash" /\ ~last.force /\ last.policy = "ask"
    /\ last.status = "duplicate_warning" /\ ~last.launched
    /\ reg[calculateHash(last.command)].execution_count > 0

\* C4: every row whose current_policy is auto_approve has promoted_at set and
\* a command_text that matches no dangerous pattern.
C4_AutoApproveRows ==
    \A h \in Hashes :
        (Exists(reg, h) /\ reg[h].current_policy = "auto_approve")
            => (reg[h].promoted_at # <<>> /\ ~MatchesDangerousPattern(reg[h].command_text))

\* C10: the policy an execute_bash call reads with get_policy is the row's
\* user_override when one is set, otherwise its current_policy, and ask for a
\* command that was never given a policy (here: one the call has just
\* registered).
C10_GetPolicy ==
    (last.op = "execute_bash" /\ last.status # "validation_failed") =>
        /\ last.override # NULL => last.policy = last.override
        /\ last.override = NULL => last.policy = last.current
        /\ ~last.existed => last.policy = "ask"

(***************************************************************************)
(* Claims about automatic policy evolution.                                *)
(***************************************************************************)
\* the columns of a command's row before a step, a fresh row when the step
\* registers the command
RowBefore(h) == GetOrCreateCommand(reg, h[2])[h]

\* a step of automatic evolution: an execute_bash call (executeCommand ends
\* with PolicyManager.CheckAutoEvolution) or a Registry.CheckAutoEvolution call
EvolutionStep == last'.op \in {"execute_bash", "check_auto_evolution"}

C8_PromotedAfterTwentySuccesses ==
    \A h \in Hashes :
        ( /\ Exists(reg, h)
          /\ last.op = "execute_bash" /\ last.status = "executed"
          /\ last.command = reg[h].command_text
          /\ reg[h].execution_count >= PromotionMinExecutions
          /\ reg[h].success_count = reg[h].execution_count
          /\ reg[h].user_override = NULL
          /\ CalculateRiskScore(reg[h].command_text) < 70
          /\ ~MatchesDangerousPattern(reg[h].command_text) )
        => ( GetPolicy(reg, h) = "auto_approve" /\ reg[h].promoted_at # <<>> )

\* C9: automatic evolution never demotes: a step of automatic evolution on a
\* command whose current_policy is auto_approve leaves current_policy and
\* user_override as they are, whatever the outcome of the execution.
C9_NoAutomaticDemotion ==
    [][ \A h \in Hashes :
          ( /\ EvolutionStep
            /\ Exists(reg, h)
            /\ reg[h].current_policy = "auto_approve" )
          => ( /\ reg'[h].current_policy = "auto_approve"
               /\ reg'[h].user_override = reg[h].user_override ) ]_vars

\* a promoted command after a burst of failures: its success rate is under
\* 95 %, the last call ran it under auto_approve and failed, and it is still
\* auto_approve
C9_Witness ==
    /\ last.op = "execute_bash" /\ last.current = "auto_approve" /\ last.launched
    /\ LET row == reg[calculateHash(last.command)]
       IN  /\ row.current_policy = "auto_approve"
           /\ row.promoted_at # <<>>
           /\ row.failure_count >= 2
           /\ row.success_count * 100 < 95 * row.execution_count

(***************************************************************************)
(* Claims about the idempotency ledger.                                    *)
(***************************************************************************)
\* C5: a commit whose hash of (session_id, block_id, final_code) is already in
\* processed_log applies no side effect to the target file or database (and,
\* hash being the primary key, processed_log keeps one row for it).
C5_SecondCommitAppliesNothing ==
    (lastLoop.op = "commit" /\ lastLoop.already) => ~lastLoop.applied

\* C6: a generate_file or generate_sql call whose hash is already in
\* processed_log does not write the file or execute the SQL again.
C6_GenerateGatedByLedger ==
    (lastLoop.op \in {"generate_file", "generate_sql"} /\ lastLoop.already)
        => ~lastLoop.applied

(***************************************************************************)
(* Claims about the registry's counters and rows.                          *)
(***************************************************************************)
ExitCodes == {0, 1}

C12_GetOrCreateIdempotent ==
    \A c \in Callers :
        callers[c].pc = "returned" =>
            /\ callers[c].err = ""
            /\ callers[c].hash = <<calculateHash(callers[c].text)>>
            /\ Exists(reg, calculateHash(callers[c].text))

(***************************************************************************)
(* Claims about sessions and blocks.                                       *)
(***************************************************************************)
\* C13: every session block whose status is committed has committed_at set
\* and a non-empty code.
C13_CommittedBlocksHaveCode ==
    \A b \in BlockIds :
        (session_blocks[b] # NoBlock /\ session_blocks[b].status = "committed")
            => ( /\ session_blocks[b].committed_at # <<>>
                 /\ session_blocks[b].code \notin {NULL, ""} )

\* the errors of a commit that was accepted and then failed at one of its steps
CommitStepErrors ==
    { "failed to generate final code", "failed to apply", "failed to mark processed",
      "failed to commit block", "failed to update final code",
      "failed to retrieve committed block" }

\* the final code a commit observation's hash was computed from
CodeOfHash(sessionID, blockID, hash) ==
    { code \in Codes : calculateCommitHash(sessionID, blockID, code) = hash }

\* the commit just observed, issued again with the same final code and no
\* step failing, succeeds
RetrySucceeds ==
    \A code \in CodeOfHash(lastLoop.session, lastLoop.block, lastLoop.hash) :
        CommitErr(lastLoop.session, lastLoop.block, code, "none") = ""

\* C14: when a commit of a pending block fails at one of its steps, the block
\* is still pending afterwards and the same commit (same session, block and
\* final code), retried with no step failing, succeeds.
C14_FailedCommitCanBeRetried ==
    [][ \A b \in BlockIds :
          ( /\ lastLoop'.op = "commit" /\ lastLoop'.block = b
            /\ lastLoop'.err \in CommitStepErrors
            /\ session_blocks[b] # NoBlock
            /\ session_blocks[b].status = "pending" )
          => ( /\ session_blocks'[b].status = "pending"
               /\ RetrySucceeds' ) ]_vars

\* C15: after a propose that failed, neither the session row nor any block
\* row of that session is visible.
C15_FailedProposeRolledBack ==
    (lastLoop.op = "propose" /\ lastLoop.err # "") =>
        /\ sessions[lastLoop.session] = NoSession
        /\ \A b \in BlockIds :
             session_blocks[b] # NoBlock => session_blocks[b].session_id # lastLoop.session

\* C16: when a refine fails, at whichever step, the block's code is what it
\* was before the call.
C16_FailedRefineKeepsCode ==
    [][ \A b \in BlockIds :
          ( /\ lastLoop'.op = "refine" /\ lastLoop'.block = b /\ lastLoop'.err # ""
            /\ session_blocks[b] # NoBlock )
          => session_blocks'[b].code = session_blocks[b].code ]_vars

\* C17: a successful commit moves the block's session from pending_audit to
\* committed.
C17_CommitMovesSession ==
    (lastLoop.op = "commit" /\ lastLoop.err = "")
        => sessions[lastLoop.session].status = "committed"

(***************************************************************************)
(* Claims about the worker process                                          *)
(***************************************************************************)
Running == {p \in Pids : inst[p].pc = "running"}

\* C18: at most one instance is past the single-instance check and alive at
\* any time, also when instances start concurrently over a stale lock file.
C18_AtMostOneInstance == Cardinality(Running) <= 1

\* C19: an operation in flight when the signal arrives, and needing no more
\* than the 55 s deadline, has completed before any database is checkpointed
\* or closed.
C19_InFlightCompletesFirst ==
    (checkpointed # {} \/ closedDBs # {})
        => ~( /\ inflight.state \in {"running", "killed"}
              /\ inflight.atSignal
              /\ inflight.leftAtSignal <= ShutdownDeadline )

\* C20: once shutdown's checkpoint phase is over, wal_checkpoint has been
\* executed on every database the worker uses, command_security included.
C20_EveryDatabaseCheckpointed ==
    worker.pc \in {"close", "exited"} => checkpointed = UsedDatabases

(***************************************************************************)
(* Claims about the rate limiter                                            *)
(***************************************************************************)
\* the backoff window after the n-th consecutive error, in seconds: min(2^n, 300)
BackoffWindow(n) == IF n >= 9 THEN 300 ELSE 2^n

\* C21: a wait or try_acquire whose backoff check falls inside the backoff
\* window of the last record_error is refused, also when tokens are available.
C21_RefusedDuringBackoff ==
    ( /\ rlLast.op \in {"wait", "try_acquire"}
      /\ rlLast.errors > 0
      /\ rlLast.elapsed < BackoffWindow(rlLast.errors) )
        => rlLast.rejected

\* C22: without cancellation, a retry_with_backoff call whose fn fails on its
\* first k <= max_retries invocations returns success after k + 1 invocations,
\* and one whose fn always fails returns an error after 1 + max_retries.
C22_RetryInvocations ==
    (retry.pc = "done" /\ ~retry.cancelled) =>
        IF retry.failures <= retry.config.MaxRetries
        THEN retry.result = "ok" /\ retry.invocations = retry.failures + 1
        ELSE /\ retry.result = "max retries exceeded"
             /\ retry.invocations = 1 + retry.config.MaxRetries

\* C23: between two refills at most requests_per_minute calls acquire a token.
C23_AtMostCapacityAcquire == acquired <= rl.requestsPerMinute

C23_Witness ==
    /\ acquired = rl.requestsPerMinute
    /\ \E c \in RLCallers : calls[c].pc = "done" /\ calls[c].result \in {"ok", "true"}
    /\ \E c \in RLCallers : calls[c].pc = "done" /\ calls[c].result = "false"
    /\ \E c \in RLCallers : calls[c].pc = "select"

\* C24: a Wait call whose context is live never stays in its select with the
\* bucket empty: it returns without a token instead of blocking.
C24_WaitNeverBlocks ==
    \A c \in RLCallers :
        (calls[c].pc = "select" /\ calls[c].op = "wait" /\ ~calls[c].cancelled)
            => rl.tokens > 0

\* C25: after the n-th consecutive record_error a call is refused exactly
\* while fewer than min(2^n, 300) seconds have passed since that error.
C25_BackoffLastsExactly ==
    (rlLast.op \in {"wait", "try_acquire"} /\ rlLast.errors > 0)
        => (rlLast.rejected <=> rlLast.elapsed < BackoffWindow(rlLast.errors))

(***************************************************************************)
(* Claims about the duplicate check                                         *)
(***************************************************************************)
\* C26: an unforced invocation of a command under policy ask, with the
\* duplicate check enabled, answers duplicate_warning when it comes
\* threshold_ms - 1 milliseconds after the previous execution, and not when
\* it comes exactly threshold_ms milliseconds after it.
C26_DuplicateAtThreshold ==
    LET h == calculateHash(last.command)
    IN  ( /\ last.op = "execute_bash" /\ ~last.force /\ last.policy = "ask"
          /\ Exists(reg, h)
          /\ reg[h].duplicate_check_enabled
          /\ reg[h].execution_count > 0 )
        => /\ (clockMs - lastExecMs = reg[h].duplicate_threshold_ms - 1)
                 => last.status = "duplicate_warning"
           /\ (clockMs - lastExecMs = reg[h].duplicate_threshold_ms)
                 => last.status # "duplicate_warning"

(***************************************************************************)
(* Claims about the registry's statistics and the evolution rules           *)
(***************************************************************************)
\* the rules of check_auto_evolution whose columns differ between two rows
RulesInEffect(before, after) ==
    (IF after.current_policy # before.current_policy \/ after.promoted_at # before.promoted_at
     THEN {"promotion"} ELSE {})
    \cup (IF after.duplicate_check_enabled # before.duplicate_check_enabled
          THEN {"monitoring"} ELSE {})
    \cup (IF after.duplicate_threshold_ms # before.duplicate_threshold_ms
          THEN {"rarity"} ELSE {})

LastTenBelowFive(timestamps) ==
    /\ Len(timestamps) >= 10
    /\ LET lastTen == SubSeq(timestamps, Len(timestamps) - 9, Len(timestamps))
       IN  TotalInterval(lastTen, 2) < 5 * 9

NonDecreasing(seq) == \A i \in 1..(Len(seq) - 1) : seq[i] <= seq[i + 1]

RejectionFormats ==
    { "[SECURITY] Invalid command rejected: %s - Error: %v", "SECURITY_EVENT: %s" }

\* C31: every line written for a security rejection names the command by its
\* sha256 hash, and no value printed into it is the command text.
C31_RejectionLogsHashOnly ==
    \A line \in securityLog :
        line.format \in RejectionFormats =>
            /\ \E i \in DOMAIN line.args : line.args[i] = calculateHash(last.command)
            /\ \A i \in DOMAIN line.args : line.args[i][1] # "text"

\* C32: within one execute_bash request, check_auto_evolution is called only
\* after a call of update_execution that returned without error.
C32_EvolutionOnlyAfterUpdate ==
    last.op = "execute_bash" =>
        \A i \in DOMAIN last.steps :
            last.steps[i] = "check_auto_evolution" =>
                \E j \in 1..(i - 1) : last.steps[j] = "update_execution"

\* C33: an execute_bash call that ends in validation_failed, pending_validation
\* or duplicate_warning leaves the registry as it was, and a call changes the
\* registry only through update_execution and check_auto_evolution, which
\* update a row and never create one.
C33_ChangesOnlyInExecutionSteps ==
    [][ last'.op = "execute_bash" =>
          /\ last'.status \in {"validation_failed", "pending_validation", "duplicate_warning"}
                => reg' = reg
          /\ reg' # reg =>
                \E i \in DOMAIN last'.steps :
                    last'.steps[i] \in {"update_execution", "check_auto_evolution"}
          /\ \A h \in Hashes : Exists(reg', h) => Exists(reg, h) ]_vars

AfterRead == ManagerSteps \ {"get_block"}

\* C35: refine and commit calls on one block serialise: from a call's read of
\* the block to its return, the block's row is what the call read with the
\* call's own writes applied, whatever other calls have been issued.
C35_CallsOnABlockSerialise ==
    \A c \in Callers :
        callers[c].pc \in AfterRead =>
            session_blocks[callers[c].block] = callers[c].row

C35_Witness ==
    \E c, o \in Callers :
        /\ c # o
        /\ callers[c].pc = "final_get"
        /\ callers[o].pc = "lock"
        /\ callers[o].block = callers[c].block
        /\ session_blocks[callers[c].block].code = callers[c].code

\* C36: an execute_bash call without force_execute on a command text that has
\* no row yet, and that the validator accepts, does not launch the executor
\* and answers pending_validation.
C36_UnseenCommandIsPending ==
    ( /\ last.op = "execute_bash"
      /\ ~last.existed
      /\ ~last.force
      /\ last.status # "validation_failed" )
        => /\ ~last.launched
           /\ last.status = "pending_validation"

\* success_count of a hash, 0 while it has no row
SuccessCountOf(r, h) == IF Exists(r, h) THEN r[h].success_count ELSE 0

C38_CommittedBlockIsFinal ==
    [][ \A b \in BlockIds :
          ( /\ lastLoop'.op \in {"refine", "commit"} /\ lastLoop'.block = b
            /\ session_blocks[b] # NoBlock
            /\ session_blocks[b].status = "committed" )
          => ( /\ session_blocks'[b].code = session_blocks[b].code
               /\ session_blocks'[b].status = session_blocks[b].status
               /\ targets' = targets ) ]_vars

\* C39: after a commit that wrote the target, whether or not a later step of
\* it failed, a block with status committed stores the code that was written
\* to the target and that the commit's hash was computed from.
C39_CommittedCodeIsAppliedCode ==
    \A b \in BlockIds :
        ( /\ lastLoop.op = "commit" /\ lastLoop.block = b
          /\ lastLoop.applied
          /\ session_blocks[b] # NoBlock
          /\ session_blocks[b].status = "committed" )
        => ( /\ session_blocks[b].code = targets[session_blocks[b].target].content
             /\ lastLoop.hash = calculateCommitHash(lastLoop.session, b, session_blocks[b].code) )

(***************************************************************************)
(* Claims about the limiter's statistics                                    *)
(***************************************************************************)
\* C40: every call of GetStats returns, with or without an active backoff
\* and whatever other goroutines do with the limiter.
C40_GetStatsReturns ==
    \A c \in RLCallers :
        (calls[c].op = "get_stats") ~> (calls[c].op = "get_stats" /\ calls[c].pc = "done")

====
